---- MODULE Spec2Model ----
(***************************************************************************)
(* Prefix-trie index, distribution aggregator, outlier detector and ratio *)
(* classifier of the credential-cleaning scripts.                         *)
(*                                                                         *)
(* Strings are sequences of runes.  Go's floating-point percentages are   *)
(* quotients of two small integers; they are kept as exact fractions      *)
(* [num, den] and compared by cross-multiplication, which orders them     *)
(* exactly as the correctly rounded float64 quotients are ordered.        *)
(***************************************************************************)
EXTENDS Integers, Sequences, FiniteSets, TLC

(* ------------------------------ bounds -------------------------------- *)
\* number of Insert calls made on one trie
MaxInserts == 3
\* length of an inserted word
MaxWordLen == 2
\* occurrence thresholds tried by the traversals
MaxThreshold == 1

\* calcCurve is tried within this distance of each standalone count of interest
CurveSpread == 2
\* largest following count handed to calcCurve
MaxFollowup == 40
\* calculatePercentile is tried on every sorted slice up to this length ...
MaxSamples == 3
\* ... of values up to this one, and on the slices <<1, 2, .., n>> up to n =
MaxSample == 2
RampLen == 10

\* number of corpus files under srcDir
MaxFiles == 2
\* length of the long run of equal lines in a corpus file
BigRun == 199
\* number of lines of the file the loader is followed through
MaxLines == 3
\* number of pieces an output file is written in
MaxPieces == 3

\* the runes passwords are made of
Chars == {"a", "b"}

AllStrings(n) == UNION {[1..k -> Chars] : k \in 0..n}
Words == AllStrings(MaxWordLen)
\* strings queried: every word and every string one rune longer
Probes == AllStrings(MaxWordLen + 1)

IsPrefix(p, w) == Len(p) <= Len(w) /\ SubSeq(w, 1, Len(p)) = p

VARIABLES
    standalone,  \* calcCurve's standalone argument
    followup,    \* calcCurve's followup argument
    flagged,     \* <<what calcCurve returned>>, <<>> before the call
    data,        \* calculatePercentile's sorted slice
    percentile,  \* calculatePercentile's percentile argument
    pctResult,   \* <<what calculatePercentile returned>>, <<>> before the call
    walk,        \* the corpus files under srcDir, in the order Walk visits them
    scanThreshold,        \* the occurrenceThreshold the scan was called with
    visited,     \* how many files the current walk has visited
    GlobalCharStats,      \* detector: the baseline loaded from the JSON file
    report,      \* detector: what has been written to the distribution file
    run,         \* aggregator: 1 in the first execution, 2 in the second
    walkOrder,   \* aggregator: the order in which the second execution visits the files
    globalCharDistributions,  \* aggregator: rune -> samples, in append order
    passTrie,    \* aggregator: the trie of the file being processed
    baseline,    \* aggregator: the statistics each execution has written
    trie,        \* the Trie under test (its root TrieNode)
    inserted,    \* history: how many times Insert was called with each word
    lastQuery,   \* the value a query has returned, until its caller takes it
    corpus,      \* loader: the lines of the file LoadCredentialsFromFile is given
    scanned,     \* loader: how many whole lines the scanner has returned
    tokens,      \* loader history: every line scanner.Text() has returned
    loaded,      \* loader: the trie the passwords are inserted into
    loadLog,     \* loader: the diagnostics logged
    loadState,   \* loader: "start", "scanning" or "returned"
    mode,        \* the program run: "baseline-build", "outlier-detect", "ratio-classify"
    faults,      \* what goes wrong at each entry of the walk: "none", "open", "read", "walk"
    outcome,     \* "start", "running", "done", or "fatal" after log.Fatalf
    baselineFile,         \* detector: what is at ../char_distributions.json
    distFile,    \* detector: "absent" or "present", the file at distributionFile
    allStats,    \* ratio statistics: file -> its PrefixStats
    statsFile,   \* ratio statistics: <<what was encoded to outputFile>>, <<>> before
    artifact,    \* output: which file is written: "baseline", "statistics", "flagged"
    oldContent,  \* output: what was at the output path before the run
    toWrite,     \* output: the pieces the complete new file is made of
    outPath,     \* output: what is at the output path now
    written,     \* output: how many pieces have been handed to the file
    writeFault,  \* output: the piece at which the write fails, 0 when none does
    outState,    \* output: "start", "created", "closed", or "fatal"
    suspiciousFile,  \* filter: what is at ./for_passwords_identified.json
    credentials, \* filter: the <<username, password>> records handed in
    newCredentials,  \* filter: the records returned, "nil" with an error
    removedFor,  \* filter: the entries appended to *removedFor
    filterState, \* filter: "start", "returned", or "error"
    ruleInput,   \* rule-based: the credentials of the file, as runs
    seqStart,    \* rule-based: sequentialUsernames as both programs find it
    countSeq,    \* count mode: its sequentialUsernames
    countRemoved,    \* count mode: the entries appended to *removedRuleBased
    countDone,   \* count mode: checkRuleBased has returned
    cleanSeq,    \* clean mode: its sequentialUsernames
    cleanRemoved,    \* clean mode: the entries appended to *removedRuleBased
    cleanKept,   \* clean mode: the credentials removeRuleBased returned
    cleanDone,   \* clean mode: removeRuleBased has returned
    seqCalls,  \* sequence: the emails detectSequentialUsernames has been called with
    seqTracker,  \* sequence: the sequentialUsernames map
    seqReturned, \* sequence: <<what the last call returned>>, <<>> before any call
    passSamples,  \* the samples one pass over the directory appends to a rune's list
    charSamples,  \* globalCharDistributions[char] for that rune
    passStats, \* the rune's statistics written at the end of each pass
    srcCredentials,  \* clean mode: the usernames and passwords priorWorksCleaning hands to the filters
    identifiedFile,  \* what is at ./for_passwords_identified.json
    destFile,  \* the cleaned file at destPath
    removedBy,  \* the removal lists of processFile
    chainState  \* start, done

trieVars == <<trie, inserted, lastQuery>>
curveVars == <<standalone, followup, flagged>>
pctVars == <<data, percentile, pctResult>>
walkVars == <<walk, scanThreshold, visited>>
detVars == <<GlobalCharStats, report>>
aggVars == <<run, walkOrder, globalCharDistributions, passTrie, baseline>>
loaderVars == <<corpus, scanned, tokens, loaded, loadLog, loadState>>
runVars == <<mode, faults, outcome, baselineFile, distFile, allStats, statsFile>>
outVars == <<artifact, oldContent, toWrite, outPath, written, writeFault, outState>>
filterVars == <<suspiciousFile, credentials, newCredentials, removedFor, filterState>>
ruleVars == <<ruleInput, seqStart, countSeq, countRemoved, countDone,
              cleanSeq, cleanRemoved, cleanKept, cleanDone>>
sequenceVars == <<seqCalls, seqTracker, seqReturned>>
passVars == <<passSamples, charSamples, passStats>>
chainVars == <<srcCredentials, identifiedFile, destFile, removedBy, chainState>>
otherVars == <<outVars, filterVars, ruleVars, sequenceVars, passVars, chainVars>>
vars == <<trieVars, curveVars, pctVars, walkVars, detVars, aggVars, loaderVars, runVars,
          otherVars>>
\* what the operations of one program leave alone: the other programs' state
notTrie == <<curveVars, pctVars, walkVars, detVars, aggVars, loaderVars, runVars,
             otherVars>>
notCurve == <<trieVars, pctVars, walkVars, detVars, aggVars, loaderVars, runVars,
              otherVars>>
notPct == <<trieVars, curveVars, walkVars, detVars, aggVars, loaderVars, runVars,
            otherVars>>
notDet == <<trieVars, curveVars, pctVars, aggVars, loaderVars, allStats, statsFile,
            otherVars>>
notAgg == <<trieVars, curveVars, pctVars, detVars, loaderVars,
            baselineFile, distFile, allStats, statsFile, otherVars>>
notLoader == <<trieVars, curveVars, pctVars, walkVars, detVars, aggVars, runVars,
               otherVars>>
notStats == <<trieVars, curveVars, pctVars, detVars, aggVars, loaderVars,
              baselineFile, distFile, otherVars>>
\* the programs with a walk and a trie, which the later stages leave alone
corePrograms == <<trieVars, curveVars, pctVars, walkVars, detVars, aggVars, loaderVars,
                  runVars>>
notOut == <<corePrograms, filterVars, ruleVars, sequenceVars, passVars, chainVars>>
notFilter == <<corePrograms, outVars, ruleVars, sequenceVars, passVars, chainVars>>
notRule == <<corePrograms, outVars, filterVars, sequenceVars, passVars, chainVars>>
notSequence == <<corePrograms, outVars, filterVars, ruleVars, passVars, chainVars>>
notPass == <<corePrograms, outVars, filterVars, ruleVars, sequenceVars, chainVars>>
notChain == <<corePrograms, outVars, filterVars, ruleVars, sequenceVars, passVars>>

(* ------------------------------- trie --------------------------------- *)
\* a TrieNode: children is a function from a set of runes to TrieNodes
NewNode == [children |-> [c \in {} |-> 0], endOfWordCount |-> 0]

NewTrie == NewNode

\* Insert called `times` times in a row with the same word: the first call
\* creates the missing nodes, every call adds one to endOfWordCount.
RECURSIVE InsertAt(_, _, _)
InsertAt(node, word, times) ==
    IF word = <<>>
    THEN [node EXCEPT !.endOfWordCount = @ + times]
    ELSE LET char == Head(word)
             child == IF char \in DOMAIN node.children
                      THEN node.children[char]
                      ELSE NewNode
         IN [node EXCEPT !.children =
                [c \in DOMAIN node.children \cup {char} |->
                    IF c = char THEN InsertAt(child, Tail(word), times)
                    ELSE node.children[c]]]

\* Insert without the `exists` test: the child on the path is always replaced
RECURSIVE InsertOverwriting(_, _)
InsertOverwriting(node, word) ==
    IF word = <<>>
    THEN [node EXCEPT !.endOfWordCount = @ + 1]
    ELSE LET char == Head(word)
         IN [node EXCEPT !.children =
                [c \in DOMAIN node.children \cup {char} |->
                    IF c = char THEN InsertOverwriting(NewNode, Tail(word))
                    ELSE node.children[c]]]

\* Insert counting an end of word at every node it passes
RECURSIVE InsertCountingPath(_, _)
InsertCountingPath(node, word) ==
    IF word = <<>>
    THEN [node EXCEPT !.endOfWordCount = @ + 1]
    ELSE LET char == Head(word)
             child == IF char \in DOMAIN node.children
                      THEN node.children[char]
                      ELSE NewNode
         IN [children |->
                [c \in DOMAIN node.children \cup {char} |->
                    IF c = char THEN InsertCountingPath(child, Tail(word))
                    ELSE node.children[c]],
             endOfWordCount |-> node.endOfWordCount + 1]

TrieInsert(t, word) == InsertAt(t, word, 1)

\* the node-finding loop shared by the queries: the node at prefix, or NoNode
NoNode == [missing |-> TRUE]

RECURSIVE Descend(_, _)
Descend(node, prefix) ==
    IF prefix = <<>> THEN node
    ELSE IF Head(prefix) \notin DOMAIN node.children THEN NoNode
    ELSE Descend(node.children[Head(prefix)], Tail(prefix))

\* sum of f[c] over c in S
RECURSIVE SumOver(_, _)
SumOver(f, S) ==
    IF S = {} THEN 0
    ELSE LET c == CHOOSE x \in S : TRUE IN f[c] + SumOver(f, S \ {c})

RECURSIVE countWordsInSubTrie(_)
countWordsInSubTrie(node) ==
    node.endOfWordCount
    + SumOver([c \in DOMAIN node.children |-> countWordsInSubTrie(node.children[c])],
              DOMAIN node.children)

CountWordsWithPrefix(t, prefix) ==
    LET node == Descend(t, prefix)
    IN IF node = NoNode THEN 0 ELSE countWordsInSubTrie(node)

\* returns the subtree total where the end-of-word count is meant
CountStandaloneSubtree(t, prefix) ==
    LET node == Descend(t, prefix)
    IN IF node = NoNode THEN 0 ELSE countWordsInSubTrie(node)

CountStandaloneOccurrences(t, prefix) ==
    LET node == Descend(t, prefix)
    IN IF node = NoNode THEN 0 ELSE node.endOfWordCount

\* counts only the entries ending at the child, not the child's subtree
collectFollowingEnds(t, prefix) ==
    LET node == Descend(t, prefix)
    IN IF node = NoNode THEN [c \in {} |-> 0]
       ELSE [childChar \in DOMAIN node.children |->
                node.children[childChar].endOfWordCount]

collectFollowingChars(t, prefix) ==
    LET node == Descend(t, prefix)
    IN IF node = NoNode THEN [c \in {} |-> 0]
       ELSE [childChar \in DOMAIN node.children |->
                countWordsInSubTrie(node.children[childChar])]

\* Go ranges over a map in an unspecified order: every order of the children
\* is a possible traversal, so the traversals return the SET of result lists
\* the program can produce.
RECURSIVE collectHighStandaloneRecursive(_, _, _)
collectHighStandaloneRecursive(node, currentPrefix, occurrenceThreshold) ==
    LET own == IF node.endOfWordCount > occurrenceThreshold
               THEN <<currentPrefix>> ELSE <<>>
        below(char) == collectHighStandaloneRecursive(
                           node.children[char], Append(currentPrefix, char),
                           occurrenceThreshold)
        RECURSIVE visit(_)
        visit(rest) ==
            IF rest = {} THEN {<<>>}
            ELSE UNION {{s \o r : s \in below(char), r \in visit(rest \ {char})}
                        : char \in rest}
    IN {own \o r : r \in visit(DOMAIN node.children)}

\* `>=` where `>` is meant
collectAtLeastThreshold(t, occurrenceThreshold) ==
    collectHighStandaloneRecursive(t, <<>>, occurrenceThreshold - 1)

collectHighStandalone(t, occurrenceThreshold) ==
    collectHighStandaloneRecursive(t, <<>>, occurrenceThreshold)

RECURSIVE collectPrefixStats(_, _, _)
collectPrefixStats(node, currentPrefix, threshold) ==
    LET totalFollowing ==
            SumOver([c \in DOMAIN node.children |->
                        countWordsInSubTrie(node.children[c])],
                    DOMAIN node.children)
        own == IF node.endOfWordCount > threshold
               THEN <<[Prefix |-> currentPrefix,
                       StandaloneCount |-> node.endOfWordCount,
                       FollowingCount |-> totalFollowing]>>
               ELSE <<>>
        below(char) == collectPrefixStats(
                           node.children[char], Append(currentPrefix, char), threshold)
        RECURSIVE visit(_)
        visit(rest) ==
            IF rest = {} THEN {<<>>}
            ELSE UNION {{s \o r : s \in below(char), r \in visit(rest \ {char})}
                        : char \in rest}
    IN {own \o r : r \in visit(DOMAIN node.children)}

(* --------------------------- trie operations --------------------------- *)
NoQuery == [op |-> "none"]

TrieInit ==
    /\ trie = NewTrie
    /\ inserted = [w \in Words |-> 0]
    /\ lastQuery = NoQuery

InsertCalls == SumOver(inserted, Words)

\* The program is sequential: a call is made once the previous one has
\* returned and its value has been taken.
Insert(word) ==
    /\ lastQuery = NoQuery
    /\ InsertCalls < MaxInserts
    /\ trie' = TrieInsert(trie, word)
    /\ inserted' = [inserted EXCEPT ![word] = @ + 1]
    /\ lastQuery' = NoQuery
    /\ UNCHANGED notTrie

QueryStandalone(prefix) ==
    /\ lastQuery = NoQuery
    /\ lastQuery' = [op |-> "CountStandaloneOccurrences", arg |-> prefix,
                     result |-> CountStandaloneOccurrences(trie, prefix)]
    /\ UNCHANGED <<trie, inserted, notTrie>>

QueryWithPrefix(prefix) ==
    /\ lastQuery = NoQuery
    /\ lastQuery' = [op |-> "CountWordsWithPrefix", arg |-> prefix,
                     result |-> CountWordsWithPrefix(trie, prefix)]
    /\ UNCHANGED <<trie, inserted, notTrie>>

QueryFollowing(prefix) ==
    /\ lastQuery = NoQuery
    /\ lastQuery' = [op |-> "collectFollowingChars", arg |-> prefix,
                     result |-> collectFollowingChars(trie, prefix)]
    /\ UNCHANGED <<trie, inserted, notTrie>>

QueryHighStandalone(threshold) ==
    /\ lastQuery = NoQuery
    /\ \E r \in collectHighStandalone(trie, threshold) :
           lastQuery' = [op |-> "collectHighStandalone", arg |-> threshold,
                         result |-> r]
    /\ UNCHANGED <<trie, inserted, notTrie>>

QueryPrefixStats(threshold) ==
    /\ lastQuery = NoQuery
    /\ \E r \in collectPrefixStats(trie, <<>>, threshold) :
           lastQuery' = [op |-> "collectPrefixStats", arg |-> threshold,
                         result |-> r]
    /\ UNCHANGED <<trie, inserted, notTrie>>

TakeResult ==
    /\ lastQuery # NoQuery
    /\ lastQuery' = NoQuery
    /\ UNCHANGED <<trie, inserted, notTrie>>

TrieNext ==
    \/ \E word \in Words : Insert(word)
    \/ \E prefix \in Probes : QueryStandalone(prefix)
    \/ \E prefix \in Probes : QueryWithPrefix(prefix)
    \/ \E prefix \in Probes : QueryFollowing(prefix)
    \/ \E threshold \in 0..MaxThreshold : QueryHighStandalone(threshold)
    \/ \E threshold \in 0..MaxThreshold : QueryPrefixStats(threshold)
    \/ TakeResult

(* ------------------------------ fractions ------------------------------ *)
\* a float64 quotient of two integers, kept exact; den > 0
Frac(n, d) == [num |-> n, den |-> d]
FracLt(x, y) == x.num * y.den < y.num * x.den
FracEq(x, y) == x.num * y.den = y.num * x.den

(* --------------------------- ratio classifier --------------------------- *)
\* the last case tested first, with >= : 20000 falls in the wrong branch
calcCurveUpperFirst(s, f) ==
    IF s >= 20000 THEN FracLt(Frac(f, 1), Frac(s - 135 * 120, 120))
    ELSE IF s >= 3000 /\ s <= 5000 THEN FracLt(Frac(f, 1), Frac(1, 1))
    ELSE IF s > 5000 THEN FracLt(Frac(f, 1), Frac(s - 10 * 500, 500))
    ELSE FALSE

\* the middle branch with offset 11 in place of 10
calcCurveOffset(s, f) ==
    IF s >= 3000 /\ s <= 5000
    THEN FracLt(Frac(f, 1), Frac(1, 1))
    ELSE IF s > 5000 /\ s <= 20000
    THEN FracLt(Frac(f, 1), Frac(s - 11 * 500, 500))
    ELSE IF s > 20000
    THEN FracLt(Frac(f, 1), Frac(s - 135 * 120, 120))
    ELSE FALSE

\* threshold = standalone/500 - 10 is the fraction (standalone - 10*500)/500
calcCurve(s, f) ==
    IF s >= 3000 /\ s <= 5000
    THEN FracLt(Frac(f, 1), Frac(1, 1))
    ELSE IF s > 5000 /\ s <= 20000
    THEN FracLt(Frac(f, 1), Frac(s - 10 * 500, 500))
    ELSE IF s > 20000
    THEN FracLt(Frac(f, 1), Frac(s - 135 * 120, 120))
    ELSE FALSE

StandaloneInputs ==
    {c + d : c \in {0, 3000, 5000, 5500, 12000, 20000, 20120, 21000},
             d \in -CurveSpread..CurveSpread} \cap Nat
FollowupInputs == 0..MaxFollowup

CurveInit ==
    /\ standalone \in StandaloneInputs
    /\ followup \in FollowupInputs
    /\ flagged = <<>>

Classify ==
    /\ flagged = <<>>
    /\ flagged' = <<calcCurve(standalone, followup)>>
    /\ UNCHANGED <<standalone, followup, notCurve>>

CurveNext == Classify

(* ------------------------------ percentile ------------------------------ *)
\* rounds the rank up instead of down
calculatePercentileCeil(d, p) ==
    LET index == (p * Len(d) + 99) \div 100
    IN d[(IF index >= Len(d) THEN Len(d) - 1 ELSE index) + 1]

\* slices are indexed from 0 in Go and from 1 here
calculatePercentile(d, p) ==
    LET index == (p * Len(d)) \div 100
    IN d[(IF index >= Len(d) THEN Len(d) - 1 ELSE index) + 1]

IsSorted(d) == \A i, j \in DOMAIN d : i <= j => d[i] <= d[j]
Ramp(n) == [i \in 1..n |-> i]
SortedSlices ==
    {d \in UNION {[1..n -> 0..MaxSample] : n \in 1..MaxSamples} : IsSorted(d)}
        \cup {Ramp(n) : n \in 1..RampLen}

PctInit ==
    /\ data \in SortedSlices
    /\ percentile \in 0..100
    /\ pctResult = <<>>

Percentile ==
    /\ pctResult = <<>>
    /\ pctResult' = <<calculatePercentile(data, percentile)>>
    /\ UNCHANGED <<data, percentile, notPct>>

PctNext == Percentile

(* ------------------------------ corpus files ---------------------------- *)
\* A corpus file is a sequence of runs of equal lines, <<line, times>>; a line
\* is a sequence of runes, among them the separator and the blank.
Colon == ":"
Blank == " "

CredentialLine(password) == <<"u", Colon>> \o password

\* strings.Split(line, ":"): the fields between the colons
RECURSIVE SplitColon(_)
SplitColon(line) ==
    IF \A i \in DOMAIN line : line[i] # Colon THEN <<line>>
    ELSE LET k == CHOOSE i \in DOMAIN line :
                      line[i] = Colon /\ \A j \in 1..(i - 1) : line[j] # Colon
         IN <<SubSeq(line, 1, k - 1)>> \o SplitColon(SubSeq(line, k + 1, Len(line)))

RECURSIVE TrimSpace(_)
TrimSpace(str) ==
    IF str = <<>> THEN str
    ELSE IF Head(str) = Blank THEN TrimSpace(Tail(str))
    ELSE IF str[Len(str)] = Blank THEN TrimSpace(SubSeq(str, 1, Len(str) - 1))
    ELSE str

\* inserts the password even when nothing is left of it after trimming
LoadRunKeepEmpty(t, line, times) ==
    LET splitLine == SplitColon(line)
    IN IF Len(splitLine) < 2 THEN InsertAt(t, <<>>, times)
       ELSE InsertAt(t, TrimSpace(splitLine[2]), times)

\* the scanner loop over a run of `times` equal lines: every one of them is
\* split and trimmed alike and inserts the same password
LoadRun(t, line, times) ==
    LET splitLine == SplitColon(line)
    IN IF Len(splitLine) < 2 THEN t
       ELSE LET password == TrimSpace(splitLine[2])
            IN IF password # <<>> THEN InsertAt(t, password, times) ELSE t

RECURSIVE LoadCredentialsFromFile(_, _)
LoadCredentialsFromFile(t, file) ==
    IF file = <<>> THEN t
    ELSE LoadCredentialsFromFile(LoadRun(t, Head(file)[1], Head(file)[2]), Tail(file))

\* the file holding password w counts[w] times, for each w
FileOf(counts) ==
    LET RECURSIVE runs(_)
        runs(ws) ==
            IF ws = {} THEN <<>>
            ELSE LET w == CHOOSE x \in ws : TRUE
                 IN (IF counts[w] > 0 THEN <<<<CredentialLine(w), counts[w]>>>> ELSE <<>>)
                        \o runs(ws \ {w})
    IN runs(DOMAIN counts)

\* every order in which the members of S can be listed
RECURSIVE Orders(_)
Orders(S) ==
    IF S = {} THEN {<<>>}
    ELSE UNION {{<<x>> \o r : r \in Orders(S \ {x})} : x \in S}

(* ------------------------------- the loader ----------------------------- *)
\* LoadCredentialsFromFile, one scanner.Scan() at a time.  The three copies of
\* the function (aggregator, detector, ratio statistics) are the same text.

\* what `for scanner.Scan()` does with one line
ScanBody(t, line) == LoadRun(t, line, 1)

\* the lines a corpus file is made of here
LoaderLines ==
    { <<"u", Colon, "a">>,
      <<"u", Colon, "a", "b">>,
      <<"u", Colon, Blank, "a", Blank>>,
      <<"u", Colon, "a", Colon, "b">>,
      <<"u">>,
      <<"u", Colon>>,
      <<"u", Colon, Blank>> }
CorpusFiles == UNION {[1..n -> LoaderLines] : n \in 0..MaxLines}

LoaderInit ==
    /\ corpus \in CorpusFiles
    /\ scanned = 0
    /\ tokens = <<>>
    /\ loaded = NewTrie
    /\ loadLog = <<>>
    /\ loadState = "start"

\* os.Open succeeds
OpenFile ==
    /\ loadState = "start"
    /\ loadState' = "scanning"
    /\ UNCHANGED <<corpus, scanned, tokens, loaded, loadLog, notLoader>>

\* os.Open fails: the error is logged and the function returns
OpenFails ==
    /\ loadState = "start"
    /\ loadLog' = Append(loadLog, "Error opening file")
    /\ loadState' = "returned"
    /\ UNCHANGED <<corpus, scanned, tokens, loaded, notLoader>>

\* scanner.Scan() returns the next line and the loop body runs on it
ScanLine ==
    /\ loadState = "scanning"
    /\ scanned < Len(corpus)
    /\ loaded' = ScanBody(loaded, corpus[scanned + 1])
    /\ tokens' = Append(tokens, corpus[scanned + 1])
    /\ scanned' = scanned + 1
    /\ UNCHANGED <<corpus, loadLog, loadState, notLoader>>

\* the read fails inside the next line: the scanner returns what it had read
\* of that line, if anything, as the last token; then Scan() is false and
\* scanner.Err() is logged
ReadFails ==
    /\ loadState = "scanning"
    /\ scanned < Len(corpus)
    /\ \E cut \in 0..(Len(corpus[scanned + 1]) - 1) :
          LET partial == SubSeq(corpus[scanned + 1], 1, cut)
          IN /\ loaded' = IF cut = 0 THEN loaded ELSE ScanBody(loaded, partial)
             /\ tokens' = IF cut = 0 THEN tokens ELSE Append(tokens, partial)
    /\ loadLog' = Append(loadLog, "Error reading file")
    /\ loadState' = "returned"
    /\ UNCHANGED <<corpus, scanned, notLoader>>

\* scanner.Scan() is false at the end of the file, scanner.Err() is nil
EndOfFile ==
    /\ loadState = "scanning"
    /\ scanned = Len(corpus)
    /\ loadState' = "returned"
    /\ UNCHANGED <<corpus, scanned, tokens, loaded, loadLog, notLoader>>

LoaderNext == OpenFile \/ OpenFails \/ ScanLine \/ ReadFails \/ EndOfFile

(* ------------------------------- the walk ------------------------------- *)
\* filepath.Walk calls the callback once per entry.  An entry of the walk is
\* a corpus file that loads, one that cannot be opened ("open"), one whose
\* read fails part-way ("read"), or an entry Walk could not access ("walk").

\* every fault makes the callback return the error
AbortOnAnyFault(m, fault) == IF fault # "none" THEN "err" ELSE "nil"

\* what the callback returns to Walk for an entry: the error Walk handed it
\* (ratio statistics), or nil after logging it (aggregator, detector); a
\* failure inside LoadCredentialsFromFile is logged there and not returned
CallbackResult(m, fault) ==
    IF m = "ratio-classify" /\ fault = "walk" THEN "err" ELSE "nil"

\* what LoadCredentialsFromFile gets to see of the file: nothing when it
\* cannot be opened, the runs before the failure when the read fails
Delivered(file, fault) ==
    CASE fault = "open" -> {<<>>}
      [] fault = "read" ->
            {SubSeq(file, 1, k) : k \in 0..(IF file = <<>> THEN 0 ELSE Len(file) - 1)}
      [] OTHER -> {file}

(* ---------------------------- outlier detector -------------------------- *)
\* `>=` where `>` is meant
isDistributionOutlierOrEqual(char, percentage, stats) ==
    ~FracLt(percentage, stats.MaxRange)

isDistributionOutlier(char, percentage, stats) ==
    FracLt(stats.MaxRange, percentage)

\* the inner loop of the scan: the children of prefix found to be outliers
OutlierChars(t, prefix, charStats) ==
    LET followingCharCount == collectFollowingChars(t, prefix)
        totalFollowingCount == SumOver(followingCharCount, DOMAIN followingCharCount)
    IN {char \in DOMAIN followingCharCount :
          /\ char \in DOMAIN charStats
          /\ LET percentage == Frac(followingCharCount[char], totalFollowingCount)
             IN /\ isDistributionOutlier(char, percentage, charStats[char])
                /\ FracLt(Frac(5, 1000), percentage)}

\* a block written for every qualifying prefix, outliers or not
PrefixBlocksAlways(t, prefix, charStats) ==
    LET followingCharCount == collectFollowingChars(t, prefix)
        totalFollowingCount == SumOver(followingCharCount, DOMAIN followingCharCount)
        outliers == OutlierChars(t, prefix, charStats)
    IN {<<[kind |-> "block",
           prefix |-> prefix,
           standaloneCount |-> CountStandaloneOccurrences(t, prefix),
           totalFollowingCount |-> totalFollowingCount,
           outlierChars |->
               [i \in DOMAIN o |->
                   [char |-> o[i],
                    percentage |-> Frac(followingCharCount[o[i]],
                                        totalFollowingCount)]]]>>
        : o \in Orders(outliers)}

\* the blocks written for one prefix: none, or one, its outliers in map order
PrefixBlocks(t, prefix, charStats) ==
    LET followingCharCount == collectFollowingChars(t, prefix)
        totalFollowingCount == SumOver(followingCharCount, DOMAIN followingCharCount)
        outliers == OutlierChars(t, prefix, charStats)
    IN IF outliers = {} THEN {<<>>}
       ELSE {<<[kind |-> "block",
                prefix |-> prefix,
                standaloneCount |-> CountStandaloneOccurrences(t, prefix),
                totalFollowingCount |-> totalFollowingCount,
                outlierChars |->
                    [i \in DOMAIN o |->
                        [char |-> o[i],
                         percentage |-> Frac(followingCharCount[o[i]],
                                             totalFollowingCount)]]]>>
             : o \in Orders(outliers)}

RECURSIVE FileBlocks(_, _, _)
FileBlocks(t, highStandalone, charStats) ==
    IF highStandalone = <<>> THEN {<<>>}
    ELSE {b \o r : b \in PrefixBlocks(t, Head(highStandalone), charStats),
                   r \in FileBlocks(t, Tail(highStandalone), charStats)}

\* the corpus files the detector is run on: password "a" once or twice, and
\* below it "aa" and "ab" in these numbers
DetectorFiles ==
    {FileOf((<<"a">> :> n) @@ (<<"a", "a">> :> m[1]) @@ (<<"a", "b">> :> m[2]))
        : n \in 1..2, m \in {<<0, 0>>, <<0, 1>>, <<1, 1>>, <<1, BigRun>>}}

\* the baselines LoadCharacterStats can have loaded: an upper bound for some
\* of the runes
MaxRanges == {Frac(0, 1), Frac(1, 2)}
Baselines ==
    UNION {[D -> [MaxRange : MaxRanges]] : D \in SUBSET Chars}

Walks(files) == UNION {[1..n -> files] : n \in 0..MaxFiles}

\* no entry of the walk fails, and the program is in its walk
NoFaults(m) ==
    /\ mode = m
    /\ faults = [i \in 1..Len(walk) |-> "none"]
    /\ outcome = "running"
    /\ baselineFile = [kind |-> "missing"]
    /\ distFile = "absent"
    /\ allStats = <<>>
    /\ statsFile = <<>>

DetInit ==
    /\ walk \in Walks(DetectorFiles)
    /\ scanThreshold \in 0..MaxThreshold
    /\ visited = 0
    /\ GlobalCharStats \in Baselines
    /\ report = <<>>
    /\ NoFaults("outlier-detect")

\* the JSON decoder gives an object for any file
LoadCharacterStatsLenient(file) ==
    [err |-> FALSE,
     stats |-> IF file.kind = "json"
               THEN [c \in {k[1] : k \in {x \in DOMAIN file.stats : Len(x) = 1}} |->
                        file.stats[<<c>>]]
               ELSE [c \in {} |-> 0]]

\* the error returned, or the statistics of the keys that are one byte long
LoadCharacterStats(file) ==
    IF file.kind # "json" THEN [err |-> TRUE]
    ELSE [err |-> FALSE,
          stats |-> [c \in {k[1] : k \in {x \in DOMAIN file.stats : Len(x) = 1}} |->
                        file.stats[<<c>>]]]

\* main up to the walk: the baseline is loaded, then
\* ScanForSuspiciousPrefixes creates the distribution file
StartDetector ==
    /\ mode = "outlier-detect"
    /\ outcome = "start"
    /\ LET loadedStats == LoadCharacterStats(baselineFile)
       IN IF loadedStats.err
          THEN /\ outcome' = "fatal"
               /\ UNCHANGED <<GlobalCharStats, report, distFile>>
          ELSE /\ GlobalCharStats' = loadedStats.stats
               /\ distFile' = "present"
               /\ report' = <<>>
               /\ outcome' = "running"
    /\ UNCHANGED <<walk, scanThreshold, visited, mode, faults, baselineFile, notDet>>

\* the Walk callback of ScanForSuspiciousPrefixes on the next entry
ScanFile ==
    /\ mode = "outlier-detect"
    /\ outcome = "running"
    /\ visited < Len(walk)
    /\ IF CallbackResult(mode, faults[visited + 1]) = "err"
       THEN outcome' = "fatal" /\ report' = report
       ELSE /\ outcome' = outcome
            /\ IF faults[visited + 1] = "walk"
               THEN report' = report
               ELSE \E content \in Delivered(walk[visited + 1], faults[visited + 1]) :
                      LET t == LoadCredentialsFromFile(NewTrie, content)
                      IN \E highStandalone \in collectHighStandalone(t, scanThreshold) :
                           \E blocks \in FileBlocks(t, highStandalone, GlobalCharStats) :
                             report' = report
                                         \o <<[kind |-> "header", file |-> visited + 1]>>
                                         \o blocks
    /\ visited' = visited + 1
    /\ UNCHANGED <<walk, scanThreshold, GlobalCharStats,
                   mode, faults, baselineFile, distFile, notDet>>

\* Walk has returned nil: ScanForSuspiciousPrefixes and main return
FinishDetector ==
    /\ mode = "outlier-detect"
    /\ outcome = "running"
    /\ visited = Len(walk)
    /\ outcome' = "done"
    /\ UNCHANGED <<walk, scanThreshold, visited, GlobalCharStats, report,
                   mode, faults, baselineFile, distFile, notDet>>

DetNext == ScanFile

(* ------------------------- distribution aggregator ---------------------- *)
RECURSIVE GCD(_, _)
GCD(x, y) == IF y = 0 THEN x ELSE GCD(y, x % y)

\* equal quotients are the same float64: fractions are kept in lowest terms
Norm(x) == LET g == GCD(x.num, x.den) IN Frac(x.num \div g, x.den \div g)
FracAdd(x, y) == Norm(Frac(x.num * y.den + y.num * x.den, x.den * y.den))

\* the sample put in place of the rune's list instead of appended to it
aggregateOverwriting(dists, distributions, total) ==
    [char \in DOMAIN dists \cup DOMAIN distributions |->
        IF char \in DOMAIN distributions
        THEN <<Norm(Frac(distributions[char] * 100, total))>>
        ELSE dists[char]]

aggregateCharacterDistributions(dists, distributions, total) ==
    [char \in DOMAIN dists \cup DOMAIN distributions |->
        IF char \in DOMAIN distributions
        THEN Append(IF char \in DOMAIN dists THEN dists[char] ELSE <<>>,
                    Norm(Frac(distributions[char] * 100, total)))
        ELSE dists[char]]

\* the loop over highStandalone in the Walk callback
RECURSIVE AggregatePrefixes(_, _, _)
AggregatePrefixes(dists, t, highStandalone) ==
    IF highStandalone = <<>> THEN dists
    ELSE LET followingCharCount == collectFollowingChars(t, Head(highStandalone))
             totalFollowingCount ==
                 SumOver(followingCharCount, DOMAIN followingCharCount)
         IN AggregatePrefixes(
                IF totalFollowingCount > 0
                THEN aggregateCharacterDistributions(
                         dists, followingCharCount, totalFollowingCount)
                ELSE dists,
                t, Tail(highStandalone))

\* sort.Float64s
RECURSIVE InsertSorted(_, _)
InsertSorted(sorted, x) ==
    IF sorted = <<>> THEN <<x>>
    ELSE IF FracLt(x, Head(sorted)) THEN <<x>> \o sorted
    ELSE <<Head(sorted)>> \o InsertSorted(Tail(sorted), x)

RECURSIVE SortFloat64s(_)
SortFloat64s(samples) ==
    IF samples = <<>> THEN <<>>
    ELSE InsertSorted(SortFloat64s(Tail(samples)), Head(samples))

RECURSIVE SumFloat64s(_)
SumFloat64s(samples) ==
    IF samples = <<>> THEN Frac(0, 1)
    ELSE FracAdd(SumFloat64s(SubSeq(samples, 1, Len(samples) - 1)),
                 samples[Len(samples)])

calculateAverage(samples) ==
    LET sum == SumFloat64s(samples)
    IN Norm(Frac(sum.num, sum.den * Len(samples)))

\* the sort left out: the statistics are taken from the slice as appended
CharacterStatisticUnsorted(percentages) ==
    [average |-> calculateAverage(percentages),
     lower_quartile |-> calculatePercentile(percentages, 5),
     upper_quartile |-> calculatePercentile(percentages, 95)]

\* the statistics of one rune's samples, the slice sorted first
CharacterStatistic(percentages) ==
    LET sorted == SortFloat64s(percentages)
    IN [average |-> calculateAverage(sorted),
        lower_quartile |-> calculatePercentile(sorted, 5),
        upper_quartile |-> calculatePercentile(sorted, 95)]

calculateAverageAndRange(dists) ==
    [char \in DOMAIN dists |-> CharacterStatistic(dists[char])]

\* the trie kept from one file to the next instead of a fresh one per file
KeepTrie(previous) == previous

\* "Reset the Trie for each file"
ResetTrie(previous) == NewTrie

\* the corpus files the aggregator is run on: under each first rune c, the
\* passwords c, ca and cb in these numbers
ProfilesA == {<<0, 0, 0>>, <<1, 1, 0>>, <<2, 1, 1>>, <<2, 2, 1>>}
ProfilesB == {<<0, 0, 0>>, <<1, 1, 0>>}
AggregatorFiles ==
    {FileOf((<<"a">> :> x[1]) @@ (<<"a", "a">> :> x[2]) @@ (<<"a", "b">> :> x[3])
            @@ (<<"b">> :> y[1]) @@ (<<"b", "a">> :> y[2]) @@ (<<"b", "b">> :> y[3]))
        : x \in ProfilesA, y \in ProfilesB}

VisitOrders(n) == {f \in [1..n -> 1..n] : \A i, j \in 1..n : f[i] = f[j] => i = j}

NoStatistics == [written |-> FALSE]

AggInit ==
    /\ walk \in Walks(AggregatorFiles)
    /\ scanThreshold \in 0..MaxThreshold
    /\ visited = 0
    /\ run = 1
    /\ walkOrder \in VisitOrders(Len(walk))
    /\ globalCharDistributions = [c \in {} |-> <<>>]
    /\ passTrie = NewTrie
    /\ baseline = [r \in 1..2 |-> NoStatistics]
    /\ NoFaults("baseline-build")

\* the entry the current execution visits next
NextIndex == IF run = 1 THEN visited + 1 ELSE walkOrder[visited + 1]
NextFile == walk[NextIndex]

\* the Walk callback of ScanForCharacterDistributions on the next entry
AggregateFile ==
    /\ mode = "baseline-build"
    /\ outcome = "running"
    /\ visited < Len(walk)
    /\ baseline[run] = NoStatistics
    /\ IF CallbackResult(mode, faults[NextIndex]) = "err"
       THEN outcome' = "fatal" /\ UNCHANGED <<passTrie, globalCharDistributions>>
       ELSE /\ outcome' = outcome
            /\ IF faults[NextIndex] = "walk"
               THEN UNCHANGED <<passTrie, globalCharDistributions>>
               ELSE \E content \in Delivered(NextFile, faults[NextIndex]) :
                      LET t == LoadCredentialsFromFile(ResetTrie(passTrie), content)
                      IN /\ passTrie' = t
                         /\ \E highStandalone \in collectHighStandalone(t, scanThreshold) :
                               globalCharDistributions' =
                                   AggregatePrefixes(globalCharDistributions, t,
                                                     highStandalone)
    /\ visited' = visited + 1
    /\ UNCHANGED <<walk, scanThreshold, run, walkOrder, baseline, mode, faults, notAgg>>

\* writeFinalStatistics, after the walk; sort.Float64s sorts the samples in place
WriteFinalStatistics ==
    /\ mode = "baseline-build"
    /\ outcome = "running"
    /\ visited = Len(walk)
    /\ baseline[run] = NoStatistics
    /\ baseline' = [baseline EXCEPT ![run] =
                        [written |-> TRUE,
                         stats |-> calculateAverageAndRange(globalCharDistributions)]]
    /\ globalCharDistributions' =
           [c \in DOMAIN globalCharDistributions |->
               SortFloat64s(globalCharDistributions[c])]
    /\ outcome' = "done"
    /\ UNCHANGED <<walk, scanThreshold, visited, run, walkOrder, passTrie,
                   mode, faults, notAgg>>

\* the program is run again on the same directory: a new process
RunAgain ==
    /\ run = 1
    /\ baseline[1] # NoStatistics
    /\ run' = 2
    /\ visited' = 0
    /\ globalCharDistributions' = [c \in {} |-> <<>>]
    /\ passTrie' = NewTrie
    /\ outcome' = "running"
    /\ UNCHANGED <<walk, scanThreshold, walkOrder, baseline, mode, faults, notAgg>>

AggNext == AggregateFile \/ WriteFinalStatistics \/ RunAgain

(* --------------------------- ratio statistics --------------------------- *)
\* the Walk callback of GeneratePrefixStatistics on the next entry
StatsFile ==
    /\ mode = "ratio-classify"
    /\ outcome = "running"
    /\ visited < Len(walk)
    /\ IF CallbackResult(mode, faults[visited + 1]) = "err"
       THEN outcome' = "fatal" /\ allStats' = allStats
       ELSE /\ outcome' = outcome
            /\ IF faults[visited + 1] = "walk"
               THEN allStats' = allStats
               ELSE \E content \in Delivered(walk[visited + 1], faults[visited + 1]) :
                      LET t == LoadCredentialsFromFile(NewTrie, content)
                      IN \E stats \in collectPrefixStats(t, <<>>, scanThreshold) :
                           allStats' = [f \in DOMAIN allStats \cup {visited + 1} |->
                                           IF f = visited + 1 THEN stats
                                           ELSE allStats[f]]
    /\ visited' = visited + 1
    /\ UNCHANGED <<walk, scanThreshold, mode, faults, statsFile, notStats>>

\* Walk has returned nil: the statistics are encoded to the output file
WriteStatistics ==
    /\ mode = "ratio-classify"
    /\ outcome = "running"
    /\ visited = Len(walk)
    /\ statsFile' = <<allStats>>
    /\ outcome' = "done"
    /\ UNCHANGED <<walk, scanThreshold, visited, mode, faults, allStats, notStats>>

(* ------------------------------- the runs ------------------------------- *)
\* One run of one of the three programs over a tree in which entries fail.
\* the corpus files of the tree
RunFiles ==
    { FileOf((<<"a">> :> 2) @@ (<<"a", "a">> :> 1) @@ (<<"a", "b">> :> 3)),
      FileOf((<<"b">> :> 2) @@ (<<"b", "a">> :> 1)),
      FileOf((<<"a">> :> 1)) }
Faults == {"none", "open", "read", "walk"}
Modes == {"baseline-build", "outlier-detect", "ratio-classify"}

\* what can be at the baseline's path: nothing, a file that does not decode,
\* or a JSON object from keys to statistics
BaselineFiles ==
    { [kind |-> "missing"], [kind |-> "malformed"],
      [kind |-> "json",
       stats |-> (<<"a">> :> [MaxRange |-> Frac(0, 1)])
                    @@ (<<"a", "b">> :> [MaxRange |-> Frac(0, 1)])],
      [kind |-> "json", stats |-> (<<"b">> :> [MaxRange |-> Frac(1, 2)])] }

\* what an earlier run has left at distributionFile
PreviousReport == <<[kind |-> "header", file |-> 0]>>

RunsInit ==
    /\ mode \in Modes
    /\ walk \in Walks(RunFiles)
    /\ faults \in [1..Len(walk) -> Faults]
    /\ scanThreshold \in 0..MaxThreshold
    /\ visited = 0
    /\ outcome = IF mode = "outlier-detect" THEN "start" ELSE "running"
    /\ baselineFile \in IF mode = "outlier-detect" THEN BaselineFiles
                        ELSE {[kind |-> "missing"]}
    /\ distFile \in IF mode = "outlier-detect" THEN {"absent", "present"} ELSE {"absent"}
    /\ report = IF distFile = "present" THEN PreviousReport ELSE <<>>
    /\ GlobalCharStats = [c \in {} |-> 0]
    /\ run = 1
    /\ walkOrder = [i \in 1..Len(walk) |-> i]
    /\ globalCharDistributions = [c \in {} |-> <<>>]
    /\ passTrie = NewTrie
    /\ baseline = [r \in 1..2 |-> NoStatistics]
    /\ allStats = <<>>
    /\ statsFile = <<>>

RunsNext ==
    \/ StartDetector
    \/ ScanFile
    \/ FinishDetector
    \/ AggregateFile
    \/ WriteFinalStatistics
    \/ StatsFile
    \/ WriteStatistics

(* --------------------------- writing an output -------------------------- *)
\* The three writers: writeFinalStatistics (the baseline), the end of
\* GeneratePrefixStatistics (the prefix statistics) and the end of
\* for_identify_passwords' main (the flagged list), one file operation at a
\* time.  The file at the output path is the sequence of pieces it holds.
Artifacts == {"baseline", "statistics", "flagged"}

OutInit ==
    /\ artifact \in Artifacts
    /\ oldContent \in {<<>>, <<0>>}
    /\ toWrite \in {[i \in 1..n |-> i] : n \in 0..MaxPieces}
    /\ outPath = oldContent
    /\ written = 0
    /\ writeFault \in 0..MaxPieces
    /\ outState = "start"

\* os.Create succeeds: the file at the path is truncated
CreateOutput ==
    /\ outState = "start"
    /\ outPath' = <<>>
    /\ outState' = "created"
    /\ UNCHANGED <<artifact, oldContent, toWrite, written, writeFault, notOut>>

\* os.Create fails: log.Fatalf, os.Exit(1) or the error returned to main
CreateFails ==
    /\ outState = "start"
    /\ outState' = "fatal"
    /\ UNCHANGED <<artifact, oldContent, toWrite, outPath, written, writeFault,
                   notOut>>

\* the next piece reaches the file
WritePiece ==
    /\ outState = "created"
    /\ written < Len(toWrite)
    /\ written + 1 # writeFault
    /\ outPath' = IF writeFault # 0 /\ written + 1 > writeFault
                  THEN outPath
                  ELSE Append(outPath, toWrite[written + 1])
    /\ written' = written + 1
    /\ UNCHANGED <<artifact, oldContent, toWrite, writeFault, outState, notOut>>

\* the write of the next piece fails.  writeFinalStatistics logs the error
\* and goes on (the bufio.Writer drops everything after its first error);
\* the JSON writers stop: os.Exit(1), or the error returned to log.Fatalf
WriteFails ==
    /\ outState = "created"
    /\ written < Len(toWrite)
    /\ written + 1 = writeFault
    /\ written' = written + 1
    /\ outState' = IF artifact = "baseline" THEN "created" ELSE "fatal"
    /\ UNCHANGED <<artifact, oldContent, toWrite, outPath, writeFault, notOut>>

\* everything has been handed over: Flush and Close, the success message
CloseOutput ==
    /\ outState = "created"
    /\ written = Len(toWrite)
    /\ outState' = "closed"
    /\ UNCHANGED <<artifact, oldContent, toWrite, outPath, written, writeFault,
                   notOut>>

OutNext == CreateOutput \/ CreateFails \/ WritePiece \/ WriteFails \/ CloseOutput

(* ------------------- follow-on ratio filter (part_001) ------------------ *)
\* number of records handed to the filter
MaxRecords == 2

\* fmt.Sprintf("%s:%s", username, password)
Entry(username, password) == username \o <<Colon>> \o password
EntriesOf(records) == [i \in 1..Len(records) |-> Entry(records[i][1], records[i][2])]

Usernames == {<<"u">>}
Records == Usernames \X Words
\* what can be at ./for_passwords_identified.json: nothing, bytes that are
\* not a JSON list of strings, or a list of flagged passwords
SuspiciousFiles ==
    {[kind |-> "missing"], [kind |-> "malformed"]}
        \cup {[kind |-> "json", list |-> S] :
                S \in {{}, {<<>>}, {<<"a">>}, {<<"a">>, <<"b", "a">>}}}

\* suspiciousPasswords[pwd]: a lookup of the whole password in the map
suspiciousPasswords(list, pwd) == pwd \in list

FilterInit ==
    /\ suspiciousFile \in SuspiciousFiles
    /\ credentials \in UNION {[1..n -> Records] : n \in 0..MaxRecords}
    /\ newCredentials = <<>>
    /\ removedFor = <<>>
    /\ filterState = "start"

\* len(passwords) == 0: the slices are returned before the file is opened
FilterNothing ==
    /\ filterState = "start"
    /\ credentials = <<>>
    /\ newCredentials' = credentials
    /\ filterState' = "returned"
    /\ UNCHANGED <<suspiciousFile, credentials, removedFor, notFilter>>

\* os.Open fails: nil, nil and the error
FilterOpenFails ==
    /\ filterState = "start"
    /\ credentials # <<>>
    /\ suspiciousFile.kind = "missing"
    /\ newCredentials' = <<>>
    /\ filterState' = "error"
    /\ UNCHANGED <<suspiciousFile, credentials, removedFor, notFilter>>

\* Decode fails: nil, nil and the error
FilterDecodeFails ==
    /\ filterState = "start"
    /\ credentials # <<>>
    /\ suspiciousFile.kind = "malformed"
    /\ newCredentials' = <<>>
    /\ filterState' = "error"
    /\ UNCHANGED <<suspiciousFile, credentials, removedFor, notFilter>>

\* the loop over the passwords
removeSuspiciousFollowOnRatios ==
    /\ filterState = "start"
    /\ credentials # <<>>
    /\ suspiciousFile.kind = "json"
    /\ LET onList(r) == suspiciousPasswords(suspiciousFile.list, r[2])
           kept(r) == ~onList(r)
       IN  /\ removedFor' = removedFor \o EntriesOf(SelectSeq(credentials, onList))
           /\ newCredentials' = SelectSeq(credentials, kept)
    /\ filterState' = "returned"
    /\ UNCHANGED <<suspiciousFile, credentials, notFilter>>

FilterNext ==
    \/ FilterNothing
    \/ FilterOpenFails
    \/ FilterDecodeFails
    \/ removeSuspiciousFollowOnRatios

(* --------------- rule-based checks (data_counting_script.go) ------------ *)
\* number of runs of credentials in the file handed to the rule-based checks
MaxCreds == 2
\* seq.count >= 100 starts the removal of a numbered sequence
SequenceLength == 100
\* emailDuplicates[email] > 100
MaxSameEmail == 100
\* len(email) < 10 || len(email) > 40
MinEmailLen == 10
MaxEmailLen == 40

\* An email, with what the two regular expressions and len() find in it:
\* key is base@domain and number the digits before the @, as the sequence
\* expression splits it (NoNumber when it does not match); formatOk is the
\* verdict of the format expression
NoNumber == -1
Emails ==
    { [name |-> "a98@xy.co", key |-> "a@xy.co", number |-> 98,
       formatOk |-> TRUE, length |-> 9],
      [name |-> "a099@xy.co", key |-> "a@xy.co", number |-> 99,
       formatOk |-> TRUE, length |-> 10],
      [name |-> "a100@xy.co", key |-> "a@xy.co", number |-> 100,
       formatOk |-> TRUE, length |-> 10],
      [name |-> "bob@xyz.co", key |-> "", number |-> NoNumber,
       formatOk |-> TRUE, length |-> 10],
      [name |-> "a+99@xy.co", key |-> "a+@xy.co", number |-> 99,
       formatOk |-> FALSE, length |-> 10] }

\* sequentialUsernames[key] = value
Put(m, key, value) ==
    IF key \in DOMAIN m THEN [m EXCEPT ![key] = value] ELSE m @@ (key :> value)
\* m[key]++ on a map of counters
Increment(m, key) == Put(m, key, IF key \in DOMAIN m THEN m[key] + 1 ELSE 1)
NoEntries == [k \in {} |-> 0]

SeqInfo(lastNumber, count, startRemoval) ==
    [lastNumber |-> lastNumber, count |-> count, startRemoval |-> startRemoval]

\* the removal starts one email late: count > 100
detectSequentialAfter(email, tracker) ==
    IF email.number = NoNumber
    THEN [tracker |-> tracker, remove |-> FALSE]
    ELSE LET seq == tracker[email.key]
             next ==
                 IF email.key \in DOMAIN tracker /\ email.number = seq.lastNumber + 1
                 THEN SeqInfo(email.number, seq.count + 1,
                              seq.startRemoval \/ seq.count + 1 > SequenceLength)
                 ELSE SeqInfo(email.number, 1, FALSE)
         IN  [tracker |-> Put(tracker, email.key, next), remove |-> next.startRemoval]

\* detectSequentialUsernames: the tracker afterwards and the value returned
detectSequentialUsernames(email, tracker) ==
    IF email.number = NoNumber
    THEN [tracker |-> tracker, remove |-> FALSE]
    ELSE LET seq == tracker[email.key]
             next ==
                 IF email.key \in DOMAIN tracker /\ email.number = seq.lastNumber + 1
                 THEN SeqInfo(email.number, seq.count + 1,
                              seq.startRemoval \/ seq.count + 1 >= SequenceLength)
                 ELSE SeqInfo(email.number, 1, FALSE)
         IN  [tracker |-> Put(tracker, email.key, next), remove |-> next.startRemoval]

\* fmt.Sprintf("%s:%s", email, password); no email here holds a colon, so
\* the pair stands for the string
Credential(email, password) == <<email.name, password>>

BadLength(email) == email.length < MinEmailLen \/ email.length > MaxEmailLen

\* what the loops carry from one credential to the next
StartOfLoop(tracker) ==
    [tracker |-> tracker, duplicates |-> NoEntries, emailDuplicates |-> NoEntries,
     removed |-> <<>>, kept |-> <<>>]

\* one turn of checkRuleBased's loop: every check is made
checkStep(acc, c) ==
    LET credential == Credential(c.email, c.password)
        seq == detectSequentialUsernames(c.email, acc.tracker)
        duplicates == Increment(acc.duplicates, credential)
        emailDuplicates == Increment(acc.emailDuplicates, c.email.name)
        shouldRemove ==
            \/ seq.remove
            \/ duplicates[credential] > 1
            \/ emailDuplicates[c.email.name] > MaxSameEmail
            \/ ~c.email.formatOk
            \/ BadLength(c.email)
    IN  [tracker |-> seq.tracker, duplicates |-> duplicates,
         emailDuplicates |-> emailDuplicates,
         removed |-> IF shouldRemove THEN Append(acc.removed, credential)
                     ELSE acc.removed,
         kept |-> acc.kept]

\* one turn of removeRuleBased's loop: the first check that fails ends it
removeStep(acc, c) ==
    LET credential == Credential(c.email, c.password)
        duplicates == Increment(acc.duplicates, credential)
        emailDuplicates == Increment(acc.emailDuplicates, c.email.name)
        seq == detectSequentialUsernames(c.email, acc.tracker)
        dropped(tracker, emails) ==
            [tracker |-> tracker, duplicates |-> duplicates, emailDuplicates |-> emails,
             removed |-> Append(acc.removed, credential), kept |-> acc.kept]
    IN  IF duplicates[credential] > 1 THEN dropped(acc.tracker, acc.emailDuplicates)
        ELSE IF BadLength(c.email) THEN dropped(acc.tracker, acc.emailDuplicates)
        ELSE IF ~c.email.formatOk THEN dropped(acc.tracker, acc.emailDuplicates)
        ELSE IF emailDuplicates[c.email.name] > MaxSameEmail
             THEN dropped(acc.tracker, emailDuplicates)
        ELSE IF seq.remove THEN dropped(seq.tracker, emailDuplicates)
        ELSE [tracker |-> seq.tracker, duplicates |-> duplicates,
              emailDuplicates |-> emailDuplicates,
              removed |-> acc.removed, kept |-> Append(acc.kept, credential)]

\* the credentials of a file, given as runs: times credentials with one
\* email, whose passwords are all the same or all different
CredentialsOf(r) ==
    [i \in 1..r.times |->
        [email |-> r.email,
         password |-> IF r.distinct THEN r.password + i - 1 ELSE r.password]]
RECURSIVE Flatten(_)
Flatten(runs) ==
    IF runs = <<>> THEN <<>> ELSE CredentialsOf(Head(runs)) \o Flatten(Tail(runs))

\* the loop over creds[lo..hi]: its first half is run to its end, and the
\* second begins where that left off
RECURSIVE checkLoop(_, _, _, _)
checkLoop(acc, creds, lo, hi) ==
    IF lo > hi THEN acc
    ELSE IF lo = hi THEN checkStep(acc, creds[lo])
    ELSE LET mid == (lo + hi) \div 2
             half == checkLoop(acc, creds, lo, mid)
         IN  IF Len(half.removed) <= mid THEN checkLoop(half, creds, mid + 1, hi) ELSE acc
checkRuleBased(creds, tracker) == checkLoop(StartOfLoop(tracker), creds, 1, Len(creds))

RECURSIVE removeLoop(_, _, _, _)
removeLoop(acc, creds, lo, hi) ==
    IF lo > hi THEN acc
    ELSE IF lo = hi THEN removeStep(acc, creds[lo])
    ELSE LET mid == (lo + hi) \div 2
             half == removeLoop(acc, creds, lo, mid)
         IN  IF Len(half.removed) <= mid THEN removeLoop(half, creds, mid + 1, hi) ELSE acc
removeRuleBased(creds, tracker) == removeLoop(StartOfLoop(tracker), creds, 1, Len(creds))

LongRun == MaxSameEmail + 1
CredentialRuns ==
    {[email |-> e, password |-> 1, times |-> 1, distinct |-> FALSE] : e \in Emails}
        \cup {[email |-> e, password |-> 1, times |-> LongRun, distinct |-> d] :
                e \in Emails, d \in BOOLEAN}
RuleInputs ==
    {f \in UNION {[1..n -> CredentialRuns] : n \in 0..MaxCreds} :
        Cardinality({i \in DOMAIN f : f[i].times > 1}) <= 1}
\* sequentialUsernames is kept from file to file: it is empty, or a sequence
\* that began at a0@xy.co is one or two steps short of SequenceLength
Trackers ==
    {NoEntries} \cup
        {[k \in {"a@xy.co"} |-> SeqInfo(SequenceLength - d - 1, SequenceLength - d, FALSE)] :
            d \in 1..2}

RuleInit ==
    /\ ruleInput \in RuleInputs
    /\ seqStart \in Trackers
    /\ countSeq = seqStart
    /\ countRemoved = <<>>
    /\ countDone = FALSE
    /\ cleanSeq = seqStart
    /\ cleanRemoved = <<>>
    /\ cleanKept = <<>>
    /\ cleanDone = FALSE

\* make count: processFile calls checkRuleBased
CountRuleBased ==
    /\ ~countDone
    /\ LET r == checkRuleBased(Flatten(ruleInput), countSeq)
       IN  /\ countSeq' = r.tracker
           /\ countRemoved' = r.removed
    /\ countDone' = TRUE
    /\ UNCHANGED <<ruleInput, seqStart, cleanSeq, cleanRemoved, cleanKept, cleanDone,
                   notRule>>

\* make clean: processFile calls removeRuleBased
CleanRuleBased ==
    /\ ~cleanDone
    /\ LET r == removeRuleBased(Flatten(ruleInput), cleanSeq)
       IN  /\ cleanSeq' = r.tracker
           /\ cleanRemoved' = r.removed
           /\ cleanKept' = r.kept
    /\ cleanDone' = TRUE
    /\ UNCHANGED <<ruleInput, seqStart, countSeq, countRemoved, countDone, notRule>>

RuleNext == CountRuleBased \/ CleanRuleBased

(* --------------- detectSequentialUsernames, call after call ------------- *)
\* number of calls followed
MaxCalls == 3

\* an email as the sequence expression splits it
SeqEmail(key, number) == [key |-> key, number |-> number]
\* base0@domain, base1@domain, .. : n emails
Consecutive(key, n) == [i \in 1..n |-> SeqEmail(key, i - 1)]

\* the calls made for emails[lo..hi]: the first half is run to its end, and
\* the second begins with the map that left
RECURSIVE detectAll(_, _, _, _)
detectAll(tracker, emails, lo, hi) ==
    IF lo > hi THEN tracker
    ELSE IF lo = hi THEN detectSequentialUsernames(emails[lo], tracker).tracker
    ELSE LET mid == (lo + hi) \div 2
             half == detectAll(tracker, emails, lo, mid)
         IN  IF DOMAIN half # {} THEN detectAll(half, emails, mid + 1, hi)
             ELSE detectAll(NoEntries, emails, mid + 1, hi)

\* the emails of the calls followed: numbers around the end of a long run,
\* a second key, and an email without digits before the @
CalledWith ==
    {SeqEmail("a@xy.co", n) : n \in (SequenceLength - 2)..(SequenceLength + 1)}
        \cup {SeqEmail("a@xy.co", 0), SeqEmail("b@xy.co", 0), SeqEmail("b@xy.co", 1),
              SeqEmail("", NoNumber)}

\* the map is empty, or the calls for a0@xy.co, a1@xy.co, .. have been made
\* up to one or two short of SequenceLength
SequenceInit ==
    /\ seqCalls \in {Consecutive("a@xy.co", n) :
                        n \in {0, SequenceLength - 2, SequenceLength - 1}}
    /\ seqTracker = detectAll(NoEntries, seqCalls, 1, Len(seqCalls))
    /\ seqReturned = <<>>

\* one call of detectSequentialUsernames(email, sequentialUsernames)
Detect ==
    /\ Len(seqReturned) < MaxCalls
    /\ \E email \in CalledWith :
          LET r == detectSequentialUsernames(email, seqTracker)
          IN  /\ seqCalls' = Append(seqCalls, email)
              /\ seqTracker' = r.tracker
              /\ seqReturned' = Append(seqReturned, r.remove)
    /\ UNCHANGED notSequence

SequenceNext == Detect

(* ------------------ passes over the same directory ------------------- *)
\* ScanForCharacterDistributions called again in the same process: the
\* samples of one rune, pass after pass
MaxList == 7
MaxPasses == 3

\* percentages a prefix gives a rune: count/total * 100
SampleValues == {Frac(100, 1), Frac(50, 1), Frac(100, 3)}
SampleLists == UNION {[1..n -> SampleValues] : n \in 1..MaxList}

PassInit ==
    /\ passSamples \in SampleLists
    /\ charSamples = <<>>
    /\ passStats = <<>>

\* one call: the Walk appends every sample to the list the earlier calls
\* left, writeFinalStatistics sorts the list in place and writes the
\* statistics
ScanAgain ==
    /\ Len(passStats) < MaxPasses
    /\ LET appended == charSamples \o passSamples
       IN /\ charSamples' = SortFloat64s(appended)
          /\ passStats' = Append(passStats, CharacterStatistic(appended))
    /\ UNCHANGED <<passSamples, notPass>>

PassNext == ScanAgain

(* ------------------ clean mode: the chain of filters ------------------ *)
\* number of pieces the source file is made of
MaxChain == 2

\* an email is local \o domain, a password begins \o ending; the operators
\* below find the parts again, as strings.Index and strings.HasPrefix do
Locals == {"user", "anna", "x"}
Domains ==
    {"@epost.de", "@gmx.de", "@lycos.de", "@web.de", "@yahoo.de", "@aol.com"}
PasswordEndings == {"", "1"}

getLocal(email) == CHOOSE l \in Locals : \E d \in Domains : email = l \o d
getDomain(email) == CHOOSE d \in Domains : \E l \in Locals : email = l \o d
\* exact on the passwords of ChainPasswords: each is a listed prefix with an
\* ending of PasswordEndings, or begins with no listed prefix
HasPrefix(str, prefix) == \E ending \in PasswordEndings : str = prefix \o ending

\* what removeRuleBased asks of an email: no local part here ends in a
\* digit, and every email has the form the format expression accepts
EmailInfo(email) ==
    [name |-> email, key |-> email, number |-> NoNumber, formatOk |-> TRUE,
     length |-> Len(email)]

suspiciousSequences ==
    << <<"@epost.de", "@gmx.de", "@lycos.de", "@web.de", "@yahoo.de">>,
       <<"@inbox.ru", "@list.ru", "@mail.ru", "@rambler.ru", "@yandex.ru">>,
       <<"@bk.ru", "@gmail.com", "@gmx.com", "@inbox.ru", "@list.ru", "@mail.ru">> >>

\* max(L+1) over the suspicious sequences
maxBlockSize ==
    CHOOSE m \in 1..10 :
        /\ \E q \in DOMAIN suspiciousSequences : m = Len(suspiciousSequences[q]) + 1
        /\ \A q \in DOMAIN suspiciousSequences : m >= Len(suspiciousSequences[q]) + 1

contains(slice, item) == \E k \in DOMAIN slice : slice[k] = item
allEqual(slice) == \A k \in DOMAIN slice : slice[k] = slice[1]

\* the grouping loop: the index after the block that starts at i
RECURSIVE BlockEnd(_, _, _, _)
BlockEnd(creds, local, j, size) ==
    IF j <= Len(creds) /\ getLocal(creds[j][1]) = local /\ size < maxBlockSize
    THEN BlockEnd(creds, local, j + 1, size + 1)
    ELSE j

\* one suspicious sequence tried on a block of indices
TrySequence(creds, blockIndices, seq) ==
    LET L == Len(seq)
        domainsAt(idx) == [k \in DOMAIN idx |-> getDomain(creds[idx[k]][1])]
        passwordsAt(idx) == [k \in DOMAIN idx |-> creds[idx[k]][2]]
        inSeq(k) == contains(seq, getDomain(creds[k][1]))
        suspiciousIdx == SelectSeq(blockIndices, inSeq)
        other(k) == ~contains(suspiciousIdx, k)
        none == [processed |-> FALSE, removed |-> <<>>, kept |-> <<>>]
    IN  IF Len(blockIndices) = L
        THEN IF domainsAt(blockIndices) = seq /\ allEqual(passwordsAt(blockIndices))
             THEN [processed |-> TRUE, removed |-> blockIndices, kept |-> <<>>]
             ELSE none
        ELSE IF Len(blockIndices) = L + 1
        THEN IF /\ Len(suspiciousIdx) = L
                /\ domainsAt(suspiciousIdx) = seq
                /\ allEqual(passwordsAt(suspiciousIdx))
             THEN [processed |-> TRUE, removed |-> suspiciousIdx,
                   kept |-> SelectSeq(blockIndices, other)]
             ELSE none
        ELSE none

\* the first sequence that matches decides; none: the block is kept
TrySequences(creds, blockIndices) ==
    LET matching == {q \in DOMAIN suspiciousSequences :
                        TrySequence(creds, blockIndices, suspiciousSequences[q]).processed}
    IN  IF matching = {}
        THEN [processed |-> FALSE, removed |-> <<>>, kept |-> blockIndices]
        ELSE LET first == CHOOSE q \in matching : \A r \in matching : q <= r
             IN  TrySequence(creds, blockIndices, suspiciousSequences[first])

RECURSIVE emailLoop(_, _, _)
emailLoop(creds, i, acc) ==
    IF i > Len(creds) THEN acc
    ELSE LET j == BlockEnd(creds, getLocal(creds[i][1]), i, 0)
             blockIndices == [k \in 1..(j - i) |-> i + k - 1]
             tried == TrySequences(creds, blockIndices)
             at(idx) == [k \in DOMAIN idx |-> creds[idx[k]]]
         IN  emailLoop(creds, j, [removed |-> acc.removed \o at(tried.removed),
                                  kept |-> acc.kept \o at(tried.kept)])

NothingRemoved == [removed |-> <<>>, kept |-> <<>>]

removeSuspiciousEmails(creds) == emailLoop(creds, 1, NothingRemoved)

removePasswordsSpecific ==
    {"010203kuk", "0000000000o", "1g2w3e4r", "angelseye22", "motherlode",
     "starwarsfan10", "secret666", "sophietorf", "Status", "!~!1"}
removePasswordsAll ==
    <<"111222t", "29rsavoy", "87654321 ", "asdasd5", "jennifer_", "jessica_",
      "lovely_", "marina_", "natasha_", "nikita_", "NULL", "paSSword", "$HEX",
      "tinkle", "target123", "victoria_", "valentina_", "vanessa_">>

removeSuspiciousFollowOnDistribution(creds) ==
    LET removePass(c) ==
            \/ c[2] \in removePasswordsSpecific
            \/ \E k \in DOMAIN removePasswordsAll : HasPrefix(c[2], removePasswordsAll[k])
        keepPass(c) == ~removePass(c)
    IN  [removed |-> SelectSeq(creds, removePass), kept |-> SelectSeq(creds, keepPass)]

\* removeSuspiciousFollowOnRatios as processFile calls it: the slices it
\* returns (nil, nil with an error), and what it appended to removedFor
followOnRatios(creds, file) ==
    LET onList(c) == suspiciousPasswords(file.list, c[2])
        notOnList(c) == ~onList(c)
    IN  IF creds = <<>> THEN [removed |-> <<>>, kept |-> creds, err |-> FALSE]
        ELSE IF file.kind # "json" THEN [removed |-> <<>>, kept |-> <<>>, err |-> TRUE]
        ELSE [removed |-> SelectSeq(creds, onList), kept |-> SelectSeq(creds, notOnList),
              err |-> FALSE]

removeFBOB(creds) ==
    LET fbob(c) == HasPrefix(c[2], "fbobh_")
        notFbob(c) == ~fbob(c)
    IN  [removed |-> SelectSeq(creds, fbob), kept |-> SelectSeq(creds, notFbob)]

\* the source file, piece by piece: one credential, or the five addresses of
\* the first suspicious sequence under one local part, with one password,
\* with one password that differs, or with a sixth address among them
ChainPasswords == {"hunter2", "secret666", "jennifer_" \o "1", "fbobh_" \o "1"}
OneCredential(email, password) == << <<email, password>> >>
SequenceBlock(local, passwords) ==
    [k \in 1..5 |-> <<local \o suspiciousSequences[1][k], passwords[k]>>]
Pieces ==
    {OneCredential("anna" \o "@web.de", pwd) : pwd \in ChainPasswords}
        \cup {OneCredential("x" \o "@gmx.de", "hunter2"),
              SequenceBlock("user", [k \in 1..5 |-> "hunter2"]),
              SequenceBlock("user", [k \in 1..5 |-> IF k = 4 THEN "secret666"
                                                     ELSE "hunter2"]),
              SubSeq(SequenceBlock("user", [k \in 1..5 |-> "hunter2"]), 1, 2)
                  \o OneCredential("user" \o "@aol.com", "fbobh_" \o "1")
                  \o SubSeq(SequenceBlock("user", [k \in 1..5 |-> "hunter2"]), 3, 5)}
RECURSIVE Joined(_)
Joined(pieces) == IF pieces = <<>> THEN <<>> ELSE Head(pieces) \o Joined(Tail(pieces))

IdentifiedFiles ==
    {[kind |-> "missing"], [kind |-> "malformed"],
     [kind |-> "json", list |-> {}], [kind |-> "json", list |-> {"hunter2"}]}

NotCreated == [created |-> FALSE]
NoRemovals ==
    [removedRuleBased |-> <<>>, removedSuspiciousEmail |-> <<>>, removedFod |-> <<>>,
     removedFor |-> <<>>, removedFBOB |-> <<>>]

ChainInit ==
    /\ srcCredentials \in {Joined(f) : f \in UNION {[1..n -> Pieces] : n \in 0..MaxChain}}
    /\ identifiedFile \in IdentifiedFiles
    /\ destFile = NotCreated
    /\ removedBy = NoRemovals
    /\ chainState = "start"

\* processFile after priorWorksCleaning, the destination written without a
\* fault; sequentialUsernames stays as it is, no email here having a number
processFile ==
    /\ chainState = "start"
    /\ LET asRecords == [k \in DOMAIN srcCredentials |->
                            [email |-> EmailInfo(srcCredentials[k][1]),
                             password |-> srcCredentials[k][2]]]
           ruleBased == removeRuleBased(asRecords, NoEntries)
           emails == removeSuspiciousEmails(ruleBased.kept)
           fod == removeSuspiciousFollowOnDistribution(emails.kept)
           for == followOnRatios(fod.kept, identifiedFile)
           fbob == removeFBOB(for.kept)
       IN  /\ removedBy' = [removedRuleBased |-> ruleBased.removed,
                            removedSuspiciousEmail |-> emails.removed,
                            removedFod |-> fod.removed,
                            removedFor |-> for.removed,
                            removedFBOB |-> fbob.removed]
           /\ destFile' = [created |-> TRUE, lines |-> fbob.kept]
    /\ chainState' = "done"
    /\ UNCHANGED <<srcCredentials, identifiedFile, notChain>>

ChainNext == processFile

(* ---------------------------- specifications ---------------------------- *)
\* Each program is checked on its own; the variables of the others stay put.
TrieIdle == trie = NewTrie /\ inserted = [w \in Words |-> 0] /\ lastQuery = NoQuery
CurveIdle == standalone = 0 /\ followup = 0 /\ flagged = <<>>
PctIdle == data = <<>> /\ percentile = 0 /\ pctResult = <<>>
WalkIdle == walk = <<>> /\ scanThreshold = 0 /\ visited = 0 /\ NoFaults("none")
DetIdle == GlobalCharStats = [c \in {} |-> 0] /\ report = <<>>
AggIdle ==
    /\ run = 1
    /\ walkOrder = <<>>
    /\ globalCharDistributions = [c \in {} |-> <<>>]
    /\ passTrie = NewTrie
    /\ baseline = [r \in 1..2 |-> NoStatistics]

OutIdle ==
    /\ artifact = "baseline"
    /\ oldContent = <<>>
    /\ toWrite = <<>>
    /\ outPath = <<>>
    /\ written = 0
    /\ writeFault = 0
    /\ outState = "start"
FilterIdle ==
    /\ suspiciousFile = [kind |-> "missing"]
    /\ credentials = <<>>
    /\ newCredentials = <<>>
    /\ removedFor = <<>>
    /\ filterState = "start"
PassIdle ==
    /\ passSamples = <<>>
    /\ charSamples = <<>>
    /\ passStats = <<>>

ChainIdle ==
    /\ srcCredentials = <<>>
    /\ identifiedFile = [kind |-> "missing"]
    /\ destFile = [created |-> FALSE]
    /\ removedBy = [removedRuleBased |-> <<>>]
    /\ chainState = "start"

SequenceIdle ==
    /\ seqCalls = <<>>
    /\ seqTracker = [k \in {} |-> 0]
    /\ seqReturned = <<>>
RuleIdle ==
    /\ ruleInput = <<>>
    /\ seqStart = [k \in {} |-> 0]
    /\ countSeq = seqStart
    /\ countRemoved = <<>>
    /\ countDone = FALSE
    /\ cleanSeq = seqStart
    /\ cleanRemoved = <<>>
    /\ cleanKept = <<>>
    /\ cleanDone = FALSE
OthersIdle == OutIdle /\ FilterIdle /\ RuleIdle /\ SequenceIdle /\ PassIdle /\ ChainIdle

LoaderIdle ==
    /\ corpus = <<>>
    /\ scanned = 0
    /\ tokens = <<>>
    /\ loaded = NewTrie
    /\ loadLog = <<>>
    /\ loadState = "start"

InitTrie ==
    TrieInit /\ CurveIdle /\ PctIdle /\ WalkIdle /\ DetIdle /\ AggIdle /\ LoaderIdle /\ OthersIdle
SpecTrie == InitTrie /\ [][TrieNext]_vars

InitCurve ==
    CurveInit /\ TrieIdle /\ PctIdle /\ WalkIdle /\ DetIdle /\ AggIdle /\ LoaderIdle /\ OthersIdle
SpecCurve == InitCurve /\ [][CurveNext]_vars

InitPercentile ==
    PctInit /\ TrieIdle /\ CurveIdle /\ WalkIdle /\ DetIdle /\ AggIdle /\ LoaderIdle /\ OthersIdle
SpecPercentile == InitPercentile /\ [][PctNext]_vars

InitDetector == DetInit /\ TrieIdle /\ CurveIdle /\ PctIdle /\ AggIdle /\ LoaderIdle /\ OthersIdle
SpecDetector == InitDetector /\ [][DetNext]_vars

InitAggregator == AggInit /\ TrieIdle /\ CurveIdle /\ PctIdle /\ DetIdle /\ LoaderIdle /\ OthersIdle
SpecAggregator == InitAggregator /\ [][AggNext]_vars

InitLoader ==
    LoaderInit /\ TrieIdle /\ CurveIdle /\ PctIdle /\ WalkIdle /\ DetIdle /\ AggIdle /\ OthersIdle
SpecLoader == InitLoader /\ [][LoaderNext]_vars

InitRuns == RunsInit /\ TrieIdle /\ CurveIdle /\ PctIdle /\ LoaderIdle /\ OthersIdle
SpecRuns == InitRuns /\ [][RunsNext]_vars

CoreIdle ==
    TrieIdle /\ CurveIdle /\ PctIdle /\ WalkIdle /\ DetIdle /\ AggIdle /\ LoaderIdle

InitOutput == OutInit /\ CoreIdle /\ FilterIdle /\ RuleIdle /\ SequenceIdle /\ PassIdle /\ ChainIdle
SpecOutput == InitOutput /\ [][OutNext]_vars

InitFilter == FilterInit /\ CoreIdle /\ OutIdle /\ RuleIdle /\ SequenceIdle /\ PassIdle /\ ChainIdle
SpecFilter == InitFilter /\ [][FilterNext]_vars

InitRules == RuleInit /\ CoreIdle /\ OutIdle /\ FilterIdle /\ SequenceIdle /\ PassIdle /\ ChainIdle
SpecRules == InitRules /\ [][RuleNext]_vars

InitSequence == SequenceInit /\ CoreIdle /\ OutIdle /\ FilterIdle /\ RuleIdle /\ PassIdle /\ ChainIdle
SpecSequence == InitSequence /\ [][SequenceNext]_vars

InitPasses == PassInit /\ CoreIdle /\ OutIdle /\ FilterIdle /\ RuleIdle /\ SequenceIdle /\ ChainIdle
SpecPasses == InitPasses /\ [][PassNext]_vars

InitChain == ChainInit /\ CoreIdle /\ OutIdle /\ FilterIdle /\ RuleIdle /\ SequenceIdle /\ PassIdle
SpecChain == InitChain /\ [][ChainNext]_vars

(* ----------------------------- trie claims ----------------------------- *)
\* a run of k + 1 Insert calls is a run of k calls followed by one call
InsertRunLemma ==
    \A w \in Words : \A k \in 1..MaxInserts :
        InsertAt(trie, w, k + 1) = TrieInsert(InsertAt(trie, w, k), w)

\* What the history of Insert calls says.  A query leaves the trie as it is,
\* so the claims quantify over every string in the states between calls and
\* look at the returned value in the states where a query has returned.
Occurrences(w) == IF w \in Words THEN inserted[w] ELSE 0
WithPrefix(p) == SumOver(inserted, {w \in Words : IsPrefix(p, w)})
Range(s) == {s[i] : i \in DOMAIN s}

\* C1: after any Insert calls on a fresh trie, CountStandaloneOccurrences(W)
\* is the number of times W itself was inserted, for every string W: 0 for a
\* string never inserted whole, be it a proper prefix of inserted words or a
\* string whose path does not exist; and that is what the query returns.
Thm_C1 ==
    /\ lastQuery = NoQuery
          => \A W \in Probes : CountStandaloneOccurrences(trie, W) = Occurrences(W)
    /\ lastQuery.op = "CountStandaloneOccurrences"
          => lastQuery.result = Occurrences(lastQuery.arg)

Wit_C1 ==
    /\ lastQuery.op = "CountStandaloneOccurrences"
    /\ lastQuery.arg = <<"a">>
    /\ lastQuery.result = 2
    /\ inserted[<<"a", "b">>] = 1
    /\ CountStandaloneOccurrences(trie, <<"b">>) = 0
    /\ CountStandaloneOccurrences(trie, <<"a", "b", "a">>) = 0

\* C2: CountWordsWithPrefix(P) is the number of inserted words, with
\* multiplicity, that have P as a prefix (P itself included), 0 when P's path
\* does not exist; every node's subtree total is the number of inserted
\* words having the node's path as a prefix.
Thm_C2 ==
    /\ lastQuery = NoQuery
          => \A P \in Probes :
                /\ CountWordsWithPrefix(trie, P) = WithPrefix(P)
                /\ Descend(trie, P) # NoNode
                      => countWordsInSubTrie(Descend(trie, P)) = WithPrefix(P)
                /\ Descend(trie, P) = NoNode => CountWordsWithPrefix(trie, P) = 0
    /\ lastQuery.op = "CountWordsWithPrefix"
          => lastQuery.result = WithPrefix(lastQuery.arg)

Wit_C2 ==
    /\ lastQuery.op = "CountWordsWithPrefix"
    /\ lastQuery.arg = <<"a">>
    /\ lastQuery.result = 3
    /\ inserted[<<"a">>] = 1
    /\ inserted[<<"a", "b">>] = 1
    /\ inserted[<<"a", "a">>] = 1
    /\ Descend(trie, <<"b">>) = NoNode

\* C3: collectFollowingChars(P) maps each immediate child rune c of P's node
\* to the number of inserted words having P+c as a prefix, is empty when P's
\* path does not exist, and its values sum to CountWordsWithPrefix(P) minus
\* CountStandaloneOccurrences(P), the number of inserted words strictly
\* longer than P that start with P; collectPrefixStats records that sum as
\* FollowingCount.
FollowingOk(P, m) ==
    /\ DOMAIN m = {c \in Chars : Descend(trie, Append(P, c)) # NoNode}
    /\ \A c \in DOMAIN m : m[c] = WithPrefix(Append(P, c))
    /\ Descend(trie, P) = NoNode => DOMAIN m = {}
    /\ SumOver(m, DOMAIN m)
          = CountWordsWithPrefix(trie, P) - CountStandaloneOccurrences(trie, P)
    /\ SumOver(m, DOMAIN m) = WithPrefix(P) - Occurrences(P)

Thm_C3 ==
    /\ lastQuery = NoQuery
          => \A P \in Probes : FollowingOk(P, collectFollowingChars(trie, P))
    /\ lastQuery.op = "collectFollowingChars"
          => FollowingOk(lastQuery.arg, lastQuery.result)
    /\ lastQuery.op = "collectPrefixStats"
          => \A i \in DOMAIN lastQuery.result :
                LET rec == lastQuery.result[i]
                IN /\ rec.StandaloneCount = Occurrences(rec.Prefix)
                   /\ rec.FollowingCount
                        = WithPrefix(rec.Prefix) - Occurrences(rec.Prefix)

Wit_C3 ==
    /\ lastQuery.op = "collectFollowingChars"
    /\ lastQuery.arg = <<"a">>
    /\ DOMAIN lastQuery.result = {"b"}
    /\ lastQuery.result["b"] = 2
    /\ inserted[<<"a">>] = 1
    /\ collectFollowingChars(trie, <<"b">>) = [c \in {} |-> 0]

\* C8: for every threshold T, collectHighStandalone returns exactly the
\* prefixes whose standalone count is strictly greater than T, each once: a
\* count of exactly T is left out, and the traversal goes on below every
\* node, qualifying or not.  collectPrefixStats visits the same prefixes.
HighStandaloneOk(T, r) ==
    /\ Range(r) = {W \in Words : inserted[W] > T}
    /\ \A i, j \in DOMAIN r : r[i] = r[j] => i = j

Wit_C8_Nested ==
    /\ lastQuery.op = "collectHighStandalone"
    /\ lastQuery.arg = 0
    /\ Range(lastQuery.result) = {<<"a">>, <<"a", "b">>, <<"b">>}

(* ------------------------- classifier claims --------------------------- *)
\* the required minimum of the table, as a fraction; none below 3000
RequiredMinimum(s) ==
    CASE s >= 3000 /\ s <= 5000 -> Frac(1, 1)
      [] s > 5000 /\ s <= 20000 -> Frac(s - 5000, 500)
      [] s > 20000 -> Frac(s - 16200, 120)

\* C4: calcCurve flags (standalone, following) iff following is strictly
\* below the table's minimum: never for standalone < 3000, 1 on [3000, 5000],
\* standalone/500 - 10 on (5000, 20000], standalone/120 - 135 above 20000;
\* (3000, 0) is flagged, (3000, 1) is not, 2999 never is, and 20000 has the
\* middle branch's minimum 30.
Thm_C4 ==
    flagged # <<>> =>
        /\ standalone < 3000 => flagged[1] = FALSE
        /\ standalone >= 3000
              => (flagged[1] <=> FracLt(Frac(followup, 1), RequiredMinimum(standalone)))
        /\ standalone = 3000 /\ followup = 0 => flagged[1] = TRUE
        /\ standalone = 3000 /\ followup = 1 => flagged[1] = FALSE
        /\ standalone = 2999 => flagged[1] = FALSE
        /\ standalone = 20000 => (flagged[1] <=> followup < 30)

Wit_C4 ==
    /\ standalone = 20000
    /\ followup = 30
    /\ flagged = <<FALSE>>

(* ------------------------- percentile claims --------------------------- *)
MinOf(x, y) == IF x <= y THEN x ELSE y

\* C5: on a non-empty ascending slice of length N and a percentile p in
\* 0..100, calculatePercentile returns the element at index
\* min(floor(p*N/100), N-1), counted from 0, with no interpolation; on
\* <<1, .., 10>> the 5th percentile is 1 and the 95th is 10.
Thm_C5 ==
    pctResult # <<>> =>
        LET N == Len(data)
        IN /\ pctResult[1] = data[MinOf((percentile * N) \div 100, N - 1) + 1]
           /\ \E i \in DOMAIN data : pctResult[1] = data[i]
           /\ data = Ramp(10) /\ percentile = 5 => pctResult[1] = 1
           /\ data = Ramp(10) /\ percentile = 95 => pctResult[1] = 10

Wit_C5 ==
    /\ data = Ramp(10)
    /\ percentile = 95
    /\ pctResult = <<10>>

(* -------------------------- detector claims ---------------------------- *)
\* What the lines of a corpus file say, without any trie.
\* the number of lines of the file whose password is in the set S, the
\* password of a line being the text after its first colon
AfterFirstColon(line) ==
    LET k == CHOOSE i \in DOMAIN line :
                 line[i] = Colon /\ \A j \in 1..(i - 1) : line[j] # Colon
    IN TrimSpace(SubSeq(line, k + 1, Len(line)))

RECURSIVE LinesWith(_, _)
LinesWith(file, S) ==
    IF file = <<>> THEN 0
    ELSE (IF /\ \E i \in DOMAIN Head(file)[1] : Head(file)[1][i] = Colon
             /\ AfterFirstColon(Head(file)[1]) \in S
          THEN Head(file)[2] ELSE 0)
            + LinesWith(Tail(file), S)

Passwords == AllStrings(MaxWordLen) \ {<<>>}
StandaloneIn(file, P) == LinesWith(file, {P})
FollowingIn(file, P, c) == LinesWith(file, {w \in Passwords : IsPrefix(Append(P, c), w)})
TotalFollowingIn(file, P) ==
    LinesWith(file, {w \in Passwords : IsPrefix(P, w) /\ w # P})
ObservedIn(file, P, c) == Frac(FollowingIn(file, P, c), TotalFollowingIn(file, P))
\* the absolute floor, 0.5%
Floor == Frac(5, 1000)

\* the part of the report written for the i-th file: what follows its header
HeaderAt(i) == CHOOSE k \in DOMAIN report : report[k] = [kind |-> "header", file |-> i]
Section(i) ==
    LET h == HeaderAt(i)
        later == {k \in DOMAIN report : k > h /\ report[k].kind = "header"}
        e == IF later = {} THEN Len(report) + 1
             ELSE CHOOSE k \in later : \A m \in later : k <= m
    IN SubSeq(report, h + 1, e - 1)
BlocksOf(i, P) == {k \in DOMAIN Section(i) : Section(i)[k].prefix = P}
ListedIn(i, P, c) ==
    \E k \in BlocksOf(i, P) :
        \E j \in DOMAIN Section(i)[k].outlierChars :
            Section(i)[k].outlierChars[j].char = c

\* C6: for a qualifying prefix and a follow-on rune that has a baseline, the
\* rune is reported as an outlier iff its observed share strictly exceeds the
\* rune's baseline upper bound and strictly exceeds the floor of 0.5%: a share
\* equal to the bound is no outlier, a share above the bound but not above the
\* floor is no outlier, a share above both is one.
Thm_C6 ==
    \A i \in 1..visited : \A P \in Passwords : \A c \in DOMAIN GlobalCharStats :
        (StandaloneIn(walk[i], P) > scanThreshold /\ FollowingIn(walk[i], P, c) > 0)
        => LET observed == ObservedIn(walk[i], P, c)
               bound == GlobalCharStats[c].MaxRange
           IN /\ ListedIn(i, P, c)
                    <=> (FracLt(bound, observed) /\ FracLt(Floor, observed))
              /\ FracEq(observed, bound) => ~ListedIn(i, P, c)
              /\ (FracLt(bound, observed) /\ ~FracLt(Floor, observed))
                    => ~ListedIn(i, P, c)

\* the first file: "aa" once and "ab" BigRun times below "a"; the second:
\* "aa" once and "ab" once
Wit_C6 ==
    /\ visited = 2
    /\ scanThreshold = 0
    /\ GlobalCharStats = ("a" :> [MaxRange |-> Frac(0, 1)])
                            @@ ("b" :> [MaxRange |-> Frac(1, 2)])
    /\ FollowingIn(walk[1], <<"a">>, "a") = 1
    /\ FollowingIn(walk[1], <<"a">>, "b") = BigRun
    /\ ~ListedIn(1, <<"a">>, "a")
    /\ ListedIn(1, <<"a">>, "b")
    /\ FollowingIn(walk[2], <<"a">>, "a") = 1
    /\ FollowingIn(walk[2], <<"a">>, "b") = 1
    /\ ListedIn(2, <<"a">>, "a")
    /\ ~ListedIn(2, <<"a">>, "b")

\* the follow-on runes of P in the file that the scan finds to be outliers
OutliersIn(file, P) ==
    {c \in DOMAIN GlobalCharStats :
        /\ FollowingIn(file, P, c) > 0
        /\ FracLt(GlobalCharStats[c].MaxRange, ObservedIn(file, P, c))
        /\ FracLt(Floor, ObservedIn(file, P, c))}

\* C7: for every file scanned, the report holds exactly one block for prefix
\* P in the file's part iff P's standalone count exceeds the threshold and P
\* has at least one outlier rune, and no block otherwise; the block carries
\* P's standalone count, its total following count and its outlier runes.
Thm_C7 ==
    \A i \in 1..visited :
        /\ \A k \in DOMAIN Section(i) : Section(i)[k].prefix \in Passwords
        /\ \A P \in Passwords :
            LET suspicious == /\ StandaloneIn(walk[i], P) > scanThreshold
                              /\ OutliersIn(walk[i], P) # {}
            IN /\ Cardinality(BlocksOf(i, P)) = IF suspicious THEN 1 ELSE 0
               /\ \A k \in BlocksOf(i, P) :
                    LET block == Section(i)[k]
                    IN /\ block.standaloneCount = StandaloneIn(walk[i], P)
                       /\ block.totalFollowingCount = TotalFollowingIn(walk[i], P)
                       /\ {block.outlierChars[j].char : j \in DOMAIN block.outlierChars}
                            = OutliersIn(walk[i], P)
                       /\ Len(block.outlierChars)
                            = Cardinality(OutliersIn(walk[i], P))
                       /\ \A j \in DOMAIN block.outlierChars :
                            FracEq(block.outlierChars[j].percentage,
                                   ObservedIn(walk[i], P, block.outlierChars[j].char))

\* two files scanned: the first has a suspicious prefix, the second has a
\* qualifying prefix without outliers
Wit_C7 ==
    /\ visited = 2
    /\ Cardinality(BlocksOf(1, <<"a">>)) = 1
    /\ Section(1)[1].standaloneCount = 2
    /\ Section(1)[1].totalFollowingCount = BigRun + 1
    /\ Len(Section(1)[1].outlierChars) = 1
    /\ StandaloneIn(walk[2], <<"a">>) > scanThreshold
    /\ TotalFollowingIn(walk[2], <<"a">>) = 2
    /\ Section(2) = <<>>

(* ------------------------- aggregator claims --------------------------- *)
Identity(n) == [i \in 1..n |-> i]
Reverse(q) == [i \in DOMAIN q |-> q[Len(q) + 1 - i]]
BothWritten == baseline[1].written /\ baseline[2].written

\* C9: the aggregator run twice over the same files in the same order writes
\* the same baseline: the same runes, each with the same average, lower bound
\* and upper bound.
Thm_C9 ==
    (BothWritten /\ walkOrder = Identity(Len(walk)))
        => /\ DOMAIN baseline[1].stats = DOMAIN baseline[2].stats
           /\ \A c \in DOMAIN baseline[1].stats :
                /\ baseline[1].stats[c].average = baseline[2].stats[c].average
                /\ baseline[1].stats[c].lower_quartile
                     = baseline[2].stats[c].lower_quartile
                /\ baseline[1].stats[c].upper_quartile
                     = baseline[2].stats[c].upper_quartile

\* two executions in the same order over two files, rune "a" with samples of
\* different values
Wit_C9 ==
    /\ BothWritten
    /\ Len(walk) = 2
    /\ walkOrder = Identity(2)
    /\ "a" \in DOMAIN baseline[2].stats
    /\ baseline[2].stats["a"].lower_quartile # baseline[2].stats["a"].upper_quartile
    /\ Len(globalCharDistributions["a"]) >= 3

\* C10: the baseline depends neither on the order in which the files are
\* processed nor on the order in which the samples were appended to a rune's
\* list: whatever the order of the files, and whatever the order in which
\* the map yields the prefixes of a file, every rune gets the same statistics.
Thm_C10 ==
    /\ BothWritten => baseline[1].stats = baseline[2].stats
    /\ \A c \in DOMAIN globalCharDistributions :
          CharacterStatistic(Reverse(globalCharDistributions[c]))
              = CharacterStatistic(globalCharDistributions[c])

\* the second execution visits two different files in the other order
Wit_C10 ==
    /\ BothWritten
    /\ Len(walk) = 2
    /\ walkOrder = <<2, 1>>
    /\ walk[1] # walk[2]
    /\ "a" \in DOMAIN baseline[2].stats
    /\ baseline[2].stats["a"].lower_quartile # baseline[2].stats["a"].upper_quartile
    /\ baseline[2].stats["a"].average # baseline[2].stats["a"].upper_quartile

(* --------------------------- loader claims ----------------------------- *)
HasColon(line) == \E i \in DOMAIN line : line[i] = Colon

\* the passwords the lines say are to be inserted: for each line with a
\* colon, all of the text after the first colon, trimmed, when not empty
RECURSIVE InsertPasswords(_, _)
InsertPasswords(t, ls) ==
    IF ls = <<>> THEN t
    ELSE LET line == Head(ls)
             next == IF HasColon(line) /\ AfterFirstColon(line) # <<>>
                     THEN TrieInsert(t, AfterFirstColon(line))
                     ELSE t
         IN InsertPasswords(next, Tail(ls))

\* C11: for every line with a colon the password inserted is the whole text
\* after the first colon, trimmed: the trie holds exactly those passwords of
\* the lines scanned so far, a password with colons in it inserted whole.
Cex_C11 == loaded = InsertPasswords(NewTrie, tokens)

\* the line u:a:b has been scanned: "a" was inserted, "a:b" was not
Wit_C11 ==
    /\ tokens = << <<"u", Colon, "a", Colon, "b">> >>
    /\ CountStandaloneOccurrences(loaded, <<"a">>) = 1
    /\ CountStandaloneOccurrences(loaded, <<"a", Colon, "b">>) = 0

\* a line without a colon, or with nothing but blanks after its first colon
Malformed(line) == ~HasColon(line) \/ AfterFirstColon(line) = <<>>

\* C12: scanning a line with no colon, or whose password is empty after
\* trimming, leaves the trie as it was, logs nothing, and leaves the loader
\* scanning, so that the lines after it are loaded.
Thm_C12 ==
    [][(scanned' = scanned + 1 /\ Malformed(corpus[scanned + 1]))
          => /\ loaded' = loaded
             /\ loadLog' = loadLog
             /\ loadState' = "scanning"]_vars

\* a line without colon and a line with an empty password were scanned, and
\* the line after them was loaded
Wit_C12 ==
    /\ scanned = 3
    /\ corpus = << <<"u">>, <<"u", Colon, Blank>>, <<"u", Colon, "a">> >>
    /\ loaded = TrieInsert(NewTrie, <<"a">>)
    /\ loadLog = <<>>
    /\ loadState = "scanning"

(* ---------------------------- the runs' claims -------------------------- *)
\* the number of qualifying prefixes of the file that have rune c as a child;
\* a password of the greatest length has nothing following it
PairsIn(file, c) ==
    Cardinality({P \in AllStrings(MaxWordLen - 1) \ {<<>>} :
                    StandaloneIn(file, P) > scanThreshold /\ FollowingIn(file, P, c) > 0})

RECURSIVE SumPairs(_, _)
SumPairs(S, c) ==
    IF S = {} THEN 0
    ELSE LET i == CHOOSE x \in S : TRUE
         IN PairsIn(walk[i], c) + SumPairs(S \ {i}, c)

SamplesOf(c) ==
    IF c \in DOMAIN globalCharDistributions THEN Len(globalCharDistributions[c]) ELSE 0

\* the i-th entry, a file that loads, has left in the run's state what the
\* whole file yields: its header and blocks in the report, its samples in
\* the sample lists, its record list in the prefix statistics
ProcessedEntry(i) ==
    LET t == LoadCredentialsFromFile(NewTrie, walk[i])
    IN CASE mode = "outlier-detect" ->
              /\ \E k \in DOMAIN report : report[k] = [kind |-> "header", file |-> i]
              /\ \E h \in collectHighStandalone(t, scanThreshold) :
                    Section(i) \in FileBlocks(t, h, GlobalCharStats)
         [] mode = "baseline-build" ->
              \A c \in Chars :
                 SamplesOf(c) >= SumPairs({j \in 1..visited : faults[j] = "none"}, c)
         [] mode = "ratio-classify" ->
              /\ i \in DOMAIN allStats
              /\ allStats[i] \in collectPrefixStats(t, <<>>, scanThreshold)

ArtifactWritten ==
    CASE mode = "outlier-detect" -> distFile = "present"
      [] mode = "baseline-build" -> baseline[run].written
      [] mode = "ratio-classify" -> statsFile = <<allStats>>

\* C13: in each of the three programs a corpus file that cannot be opened or
\* read does not abort the walk: a run is fatal only for a baseline that does
\* not load or, in the ratio statistics, for an entry the walk could not
\* access, never for a file; every file that loads is processed whatever
\* failed before it; and a finished run has visited every entry and written
\* its output.
Thm_C13 ==
    /\ outcome = "fatal"
          => \/ mode = "outlier-detect" /\ visited = 0
             \/ mode = "ratio-classify" /\ visited > 0 /\ faults[visited] = "walk"
    /\ \A i \in 1..visited : faults[i] = "none" => ProcessedEntry(i)
    /\ outcome = "done" => visited = Len(walk) /\ ArtifactWritten

\* the detector has finished a walk whose first file could not be opened
\* and whose second file loaded and has a block in the report
Wit_C13 ==
    /\ mode = "outlier-detect"
    /\ outcome = "done"
    /\ faults = <<"open", "none">>
    /\ Section(1) = <<>>
    /\ Len(Section(2)) = 1

\* C14: in every program a failure of the directory walk itself is fatal:
\* once the walk has met an entry it could not access, the run does not
\* complete normally with an output written from the rest of the tree.
Cex_C14 ==
    (\E i \in 1..visited : faults[i] = "walk") => ~(outcome = "done" /\ ArtifactWritten)

\* the aggregator has written its statistics after a walk that met an
\* entry it could not access
Wit_C14 ==
    /\ mode = "baseline-build"
    /\ faults = <<"walk", "none">>
    /\ outcome = "done"
    /\ baseline[1].written
    /\ DOMAIN baseline[1].stats # {}

\* C15: when the baseline file is missing or does not decode, the detector
\* ends fatally before the walk: no entry is visited, and the distribution
\* file is neither created nor written.
Thm_C15 ==
    (mode = "outlier-detect" /\ baselineFile.kind # "json")
        => /\ outcome \in {"start", "fatal"}
           /\ visited = 0
           /\ \/ distFile = "absent" /\ report = <<>>
              \/ distFile = "present" /\ report = PreviousReport

Wit_C15 ==
    /\ mode = "outlier-detect"
    /\ baselineFile.kind = "malformed"
    /\ outcome = "fatal"
    /\ visited = 0
    /\ Len(walk) = 2
    /\ distFile = "absent"

(* ---------------------------- output claims ----------------------------- *)
\* C16: a failure while an output file is written is fatal for that file,
\* and at every point of the run the output path holds either what it held
\* before the run or the complete new file, never a part of it.
Cex_C16 ==
    /\ outPath = oldContent \/ outPath = toWrite
    /\ (writeFault # 0 /\ written >= writeFault) => outState # "closed"

\* the path held a file, the new file has pieces, and the path is empty
Wit_C16 ==
    /\ outState = "created"
    /\ oldContent = <<0>>
    /\ toWrite = <<1, 2>>
    /\ outPath = <<>>
    /\ writeFault = 0

(* -------------------------- filter claims ------------------------------ *)
\* the password is a flagged entry or begins with one
FlaggedOrPrefixed(list, pwd) == \E f \in list : IsPrefix(f, pwd)

\* C17: given the flagged set, removeSuspiciousFollowOnRatios removes every
\* record whose password is a flagged entry or has a flagged entry as a
\* prefix, keeps every other record, and records each removed record in the
\* removed list.
Cex_C17 ==
    (filterState = "returned" /\ credentials # <<>>) =>
        LET hit(r) == FlaggedOrPrefixed(suspiciousFile.list, r[2])
            miss(r) == ~hit(r)
        IN  /\ newCredentials = SelectSeq(credentials, miss)
            /\ removedFor = EntriesOf(SelectSeq(credentials, hit))
\* the filter has run on a record whose password extends a flagged entry
Wit_C17 ==
    /\ filterState = "returned"
    /\ suspiciousFile = [kind |-> "json", list |-> {<<"a">>}]
    /\ credentials = << << <<"u">>, <<"a", "b">> >> >>
    /\ newCredentials = credentials
    /\ removedFor = <<>>

(* ------------------------ rule-based claims ---------------------------- *)
\* C18: count mode reports what clean mode would remove: on the same list of
\* credentials and the same initial sequential-username tracker, the
\* credentials checkRuleBased records as rule-based removals are the ones
\* removeRuleBased removes, and as many.
Cex_C18 ==
    (countDone /\ cleanDone) =>
        /\ Range(countRemoved) = Range(cleanRemoved)
        /\ Len(countRemoved) = Len(cleanRemoved)
\* both modes have run on a98@xy.co, a099@xy.co with the sequence at 98:
\* count mode records both, clean mode removes only the short email
Wit_C18 ==
    /\ countDone /\ cleanDone
    /\ seqStart = [k \in {"a@xy.co"} |-> SeqInfo(97, 98, FALSE)]
    /\ Len(ruleInput) = 2
    /\ ruleInput[1].email.name = "a98@xy.co" /\ ruleInput[1].times = 1
    /\ ruleInput[2].email.name = "a099@xy.co" /\ ruleInput[2].times = 1
    /\ countRemoved = << <<"a98@xy.co", 1>>, <<"a099@xy.co", 1>> >>
    /\ cleanRemoved = << <<"a98@xy.co", 1>> >>
    /\ cleanKept = << <<"a099@xy.co", 1>> >>

(* ----------------------- percentage unit claims ------------------------ *)
\* the Aggregator's percentage: (count / total) * 100
Percent(count, total) == Frac(count * 100, total)

\* C19: the Outlier Detector computes a rune's observed percentage as the
\* Aggregator does, count/totalFollowing x 100, and it is this value, in the
\* unit of the baseline upper bound the Aggregator produces, that is compared
\* against the bound: a rune of a qualifying prefix is listed iff its
\* percentage exceeds the bound (and its share exceeds the floor).
Cex_C19 ==
    \A i \in 1..visited : \A P \in Passwords : \A c \in DOMAIN GlobalCharStats :
        (StandaloneIn(walk[i], P) > scanThreshold /\ FollowingIn(walk[i], P, c) > 0)
        => LET percentage == Percent(FollowingIn(walk[i], P, c),
                                     TotalFollowingIn(walk[i], P))
               bound == GlobalCharStats[c].MaxRange
           IN ListedIn(i, P, c)
                <=> (FracLt(bound, percentage)
                        /\ FracLt(Floor, ObservedIn(walk[i], P, c)))
\* below "a", "aa" once and "ab" once: rune a has 50 per cent, its bound is
\* 0.5 per cent, and the rune is not listed
Wit_C19 ==
    /\ visited >= 1
    /\ scanThreshold = 0
    /\ "a" \in DOMAIN GlobalCharStats
    /\ GlobalCharStats["a"].MaxRange = Frac(1, 2)
    /\ FollowingIn(walk[1], <<"a">>, "a") = 1
    /\ TotalFollowingIn(walk[1], <<"a">>) = 2
    /\ ~ListedIn(1, <<"a">>, "a")

(* ------------------------- sample list claims -------------------------- *)
\* the entries of the walk the current execution has visited
VisitedEntries ==
    IF run = 1 THEN 1..visited ELSE {walkOrder[k] : k \in 1..visited}

\* C20: during baseline building each (file, qualifying prefix) pair appends
\* exactly one sample to the list of each immediate child rune of the prefix
\* and nothing to any other list, and a qualifying prefix with nothing
\* following appends nothing: the length of a rune's sample list is the
\* number of (file, qualifying prefix) pairs that have the rune as an
\* immediate child, over the files visited, and a rune with no pair has no
\* list.
Thm_C20 ==
    \A c \in Chars :
        LET pairs == SumPairs(VisitedEntries, c)
        IN  /\ SamplesOf(c) = pairs
            /\ c \in DOMAIN globalCharDistributions <=> pairs > 0
\* two files visited: in the first, "a" and "b" qualify and each has the
\* child a; in the second "a" and "aa" qualify, "aa" with nothing following
Wit_C20 ==
    /\ run = 1
    /\ visited = 2
    /\ scanThreshold = 0
    /\ PairsIn(walk[1], "a") = 2
    /\ PairsIn(walk[2], "a") = 1
    /\ StandaloneIn(walk[2], <<"a", "a">>) = 1
    /\ SamplesOf("a") = 3
    /\ "b" \notin DOMAIN globalCharDistributions

(* ------------------------ partly read files ----------------------------- *)
\* the entries visited whose file was read to its end
ReadWhole == {j \in 1..visited : faults[j] = "none"}

\* C21: a corpus file whose read fails part-way is skipped: none of its
\* lines, those read before the failure included, contributes qualifying
\* prefixes, baseline samples, report blocks or prefix statistics to the run.
Cex_C21 ==
    /\ mode = "baseline-build" => \A c \in Chars : SamplesOf(c) = SumPairs(ReadWhole, c)
    /\ \A i \in 1..visited :
          faults[i] = "read" =>
              CASE mode = "outlier-detect" ->
                      (\E k \in DOMAIN report : report[k] = [kind |-> "header", file |-> i])
                          => Section(i) = <<>>
                [] mode = "ratio-classify" ->
                      i \in DOMAIN allStats => allStats[i] = <<>>
                [] OTHER -> TRUE
\* the aggregator has visited one file, whose read failed, and holds samples
Wit_C21 ==
    /\ mode = "baseline-build"
    /\ visited = 1
    /\ faults[1] = "read"
    /\ \E c \in Chars : SamplesOf(c) > 0

(* --------------------------- the report file ---------------------------- *)
\* C22: the outlier report is an append-only, accumulating log: what is
\* already in it, blocks of earlier files of the run and what an earlier run
\* wrote to the same path, is never removed or altered; every write only
\* adds after it.
Cex_C22 == [][IsPrefix(report, report')]_vars
\* the detector has finished a run over two files; the report begins with
\* the header of the run's first file
Wit_C22 ==
    /\ mode = "outlier-detect"
    /\ outcome = "done"
    /\ visited = 2
    /\ distFile = "present"
    /\ report # <<>>
    /\ report[1] = [kind |-> "header", file |-> 1]
    /\ \A k \in DOMAIN report : report[k] # PreviousReport[1]

(* --------------------------- one trie per file -------------------------- *)
\* the entry the current execution visited last
LastIndex == IF run = 1 THEN visited ELSE walkOrder[visited]

\* C23: a trie is built from scratch for each corpus file and never shared:
\* the trie the queries of a file are answered from holds that file's lines
\* and nothing else, so the qualifying prefixes, standalone counts and
\* following counts of the file are the same whatever was processed before it.
Thm_C23 ==
    visited > 0 =>
        LET file == walk[LastIndex]
        IN  /\ passTrie = LoadCredentialsFromFile(NewTrie, file)
            /\ \A P \in AllStrings(MaxWordLen - 1) :
                  /\ CountStandaloneOccurrences(passTrie, P) = StandaloneIn(file, P)
                  /\ LET following == collectFollowingChars(passTrie, P)
                     IN  \A c \in Chars :
                            FollowingIn(file, P, c)
                                = IF c \in DOMAIN following THEN following[c] ELSE 0
\* the second of two different files has been processed, in either
\* execution, and its trie holds nothing of the first
Wit_C23 ==
    /\ visited = 2
    /\ walk[1] # walk[2]
    /\ walk[1] # <<>> /\ walk[2] # <<>>
    /\ passTrie # NewTrie
    /\ passTrie # LoadCredentialsFromFile(
                      LoadCredentialsFromFile(NewTrie, walk[1]), walk[2])

(* ----------------------- sequential usernames --------------------------- *)
\* the numbers of the calls made for the key, in the order of the calls
NumbersOf(calls, key) ==
    LET forKey(e) == e.number # NoNumber /\ e.key = key
        sel == SelectSeq(calls, forKey)
    IN  [i \in DOMAIN sel |-> sel[i].number]
\* the length of the run the last number ends: the numbers since the last
\* one that did not follow its predecessor
RunLength(ns) ==
    LET breaks == {0} \cup {i \in 1..(Len(ns) - 1) : ns[i + 1] # ns[i] + 1}
    IN  Len(ns) - (CHOOSE b \in breaks : \A c \in breaks : c <= b)

\* C24: detectSequentialUsernames returns true for an email base+number@domain
\* exactly when the email extends a run for its key in which every number is
\* the previous one plus one and the run has reached SequenceLength; the first
\* SequenceLength - 1 emails of a run return false, a number that does not
\* follow restarts the run at 1 and returns false, and an email without a
\* number returns false and leaves the map as it was.
Thm_C24 ==
    /\ \A key \in {"a@xy.co", "b@xy.co", ""} :
          LET ns == NumbersOf(seqCalls, key)
          IN  IF ns = <<>> THEN key \notin DOMAIN seqTracker
              ELSE /\ key \in DOMAIN seqTracker
                   /\ seqTracker[key] = SeqInfo(ns[Len(ns)], RunLength(ns),
                                                RunLength(ns) >= SequenceLength)
    /\ seqReturned # <<>> =>
          LET email == seqCalls[Len(seqCalls)]
          IN  seqReturned[Len(seqReturned)]
                  = (/\ email.number # NoNumber
                     /\ RunLength(NumbersOf(seqCalls, email.key)) >= SequenceLength)
\* the 99th and the 100th email of the run a0, a1, .. have been passed, then
\* a0 again: false, true, false
Wit_C24 ==
    /\ Len(seqCalls) = SequenceLength + 1
    /\ seqReturned = <<FALSE, TRUE, FALSE>>
    /\ seqCalls[SequenceLength].number = SequenceLength - 1
    /\ seqTracker["a@xy.co"] = SeqInfo(0, 1, FALSE)

\* C25: for integer counts the classifier is monotone in the standalone
\* count: a pair flagged at s >= 3000 is flagged at every s' >= s with the
\* same following count, across the branch boundaries at 5000 and 20000
Thm_C25 ==
    flagged # <<>> =>
        /\ flagged[1] = calcCurve(standalone, followup)
        /\ (standalone >= 3000 /\ flagged[1]) =>
               \A s \in StandaloneInputs :
                   s >= standalone => calcCurve(s, followup)

\* a pair flagged by the middle branch at 20000, just below the last branch
Wit_C25 ==
    /\ flagged = <<TRUE>>
    /\ standalone = 20000
    /\ followup = 29
    /\ 20001 \in StandaloneInputs

InsertedWord == CHOOSE w \in Words : inserted'[w] = inserted[w] + 1

\* C28: Insert(w) adds exactly 1 to CountWordsWithPrefix(P) for every prefix
\* P of w (w and the empty prefix included), adds 1 to
\* CountStandaloneOccurrences for w alone, and changes neither count for any
\* other string; no count ever decreases; the queries leave the trie as it
\* was, with no node created even for a prefix whose path does not exist
Thm_C28 ==
    [][IF inserted' # inserted
       THEN \A P \in Probes :
              LET withPrefix == CountWordsWithPrefix(trie, P)
                  standaloneCount == CountStandaloneOccurrences(trie, P)
                  withPrefixAfter == CountWordsWithPrefix(trie', P)
                  standaloneAfter == CountStandaloneOccurrences(trie', P)
              IN  /\ withPrefixAfter
                        = withPrefix + (IF IsPrefix(P, InsertedWord) THEN 1 ELSE 0)
                  /\ standaloneAfter
                        = standaloneCount + (IF P = InsertedWord THEN 1 ELSE 0)
                  /\ withPrefixAfter >= withPrefix
                  /\ standaloneAfter >= standaloneCount
       ELSE \* a query, or its result taken: the same trie, so the same
            \* counts and the same nodes
            trie' = trie
      ]_vars

\* ab inserted after a, then CountWordsWithPrefix asked for ba, a prefix
\* with no path: the answer is 0 and there is still no node b
Wit_C28 ==
    /\ inserted[<<"a">>] = 1
    /\ inserted[<<"a", "b">>] = 1
    /\ InsertCalls = 2
    /\ CountWordsWithPrefix(trie, <<"a">>) = 2
    /\ CountStandaloneOccurrences(trie, <<"a">>) = 1
    /\ lastQuery = [op |-> "CountWordsWithPrefix", arg |-> <<"b", "a">>, result |-> 0]
    /\ Descend(trie, <<"b">>) = NoNode

\* the number of times credential c is in the list
RECURSIVE TimesIn(_, _)
TimesIn(list, c) ==
    IF list = <<>> THEN 0
    ELSE (IF Head(list) = c THEN 1 ELSE 0) + TimesIn(Tail(list), c)

RemovedTimes(c) ==
    TimesIn(removedBy.removedRuleBased, c) + TimesIn(removedBy.removedSuspiciousEmail, c)
        + TimesIn(removedBy.removedFod, c) + TimesIn(removedBy.removedFor, c)
        + TimesIn(removedBy.removedFBOB, c)

\* C26: in clean mode every credential that entered the chain of filters is
\* written to the cleaned file or recorded in exactly one removal list,
\* whatever each filter does, the flagged-password file missing or
\* undecodable included: as many times as it came in, it is written or listed
Cex_C26 ==
    chainState = "done" =>
        \A k \in DOMAIN srcCredentials :
            LET c == srcCredentials[k]
            IN  TimesIn(srcCredentials, c) = TimesIn(destFile.lines, c) + RemovedTimes(c)

\* the flagged-password file is missing: a credential no filter removes is
\* neither in the cleaned file nor in a removal list
Wit_C26 ==
    /\ chainState = "done"
    /\ identifiedFile.kind = "missing"
    /\ srcCredentials = OneCredential("anna" \o "@web.de", "hunter2")
    /\ destFile = [created |-> TRUE, lines |-> <<>>]
    /\ removedBy = NoRemovals

\* with the flagged-password file read, the filters lose nothing
ChainConserves ==
    (chainState = "done" /\ identifiedFile.kind = "json") =>
        \A k \in DOMAIN srcCredentials :
            LET c == srcCredentials[k]
            IN  TimesIn(srcCredentials, c) = TimesIn(destFile.lines, c) + RemovedTimes(c)

====
